---------------------------- MODULE Spec2Model ----------------------------
(***************************************************************************)
(* A model of the last-mile assignment engine: the three cost-matrix       *)
(* solvers and their size-adaptive dispatcher (algorithms/optimizers.ts),  *)
(* the reassignment engine's per-order guards (services/reassignment-      *)
(* engine.ts), candidate generation (core/candidate-generation.ts) and the *)
(* cycle orchestrator (engine/assignment-engine.ts).                       *)
(*                                                                         *)
(* Numbers.  Costs are integers in units of 0.01 (the matrix of the        *)
(* Hungarian test, 0.5 0.8 0.7 / ..., is 50 80 70 / ...).  The source's    *)
(* sentinel 1e10 does not fit TLC's 32-bit integers; Sentinel stands for  *)
(* it, scaled down but kept far above every sum the solvers form from      *)
(* real costs, so every comparison comes out as with 1e10.                 *)
(* JavaScript's Infinity is the integer Infinity with saturating Plus and  *)
(* Minus.  Indices are 1-based (row i of the source is row i+1 here).      *)
(***************************************************************************)
EXTENDS Integers, Sequences, FiniteSets, TLC

VARIABLES
  solverInput,           \* the AssignmentMatrix handed to a solver
  solverResult,          \* the OptimizationResult of the last solver call
  reassignmentCounts,    \* ReassignmentEngine.reassignmentCounts
  lastReassignmentTime,  \* ReassignmentEngine.lastReassignmentTime
  clock,                 \* Date.now(), in seconds
  recorded,              \* history: the recordReassignment calls, with their times
  answer,                \* the value the last query of a component returned
  orders,                \* AssignmentEngine.state.orders
  riders,                \* AssignmentEngine.state.riders
  riderLocations,        \* CandidateGenerator.riderLocations
  assignments,           \* AssignmentEngine.state.assignments
  surgeState,            \* AssignmentEngine.state.surgeState
  cycleCount,            \* AssignmentEngine.cycleCount
  cycleHistory,          \* AssignmentEngine.state.cycleHistory
  calls,                 \* history: the number of executeCycle calls
  lastCall,              \* history: the input and the result of the last executeCycle
  updates,               \* history: for each updateState call, the number of
                         \* executeCycle calls made before it
  config,                \* ConfigurationBuilder.config
  etaCache,              \* ETAModel.etaCache
  riderModelCache        \* ETAModel.riderModelCache

vars == <<solverInput, solverResult, reassignmentCounts, lastReassignmentTime, clock,
          recorded, answer, orders, riders, riderLocations, assignments, surgeState,
          cycleCount, cycleHistory, calls, lastCall, updates, config, etaCache,
          riderModelCache>>

\* ------------------------------------------------------------------ numbers

Sentinel == 100000000
Infinity == 2000000000
NegInfinity == 0 - Infinity

Plus(a, b) ==
  IF a = Infinity \/ b = Infinity THEN Infinity
  ELSE IF a = NegInfinity \/ b = NegInfinity THEN NegInfinity
  ELSE a + b

Negate(a) ==
  IF a = Infinity THEN NegInfinity
  ELSE IF a = NegInfinity THEN Infinity
  ELSE 0 - a

Minus(a, b) == Plus(a, Negate(b))

MaxOf(a, b) == IF a >= b THEN a ELSE b

\* A cost matrix: orders and riders are the index ranges, costMatrix[i][j]
\* the cost of order i with rider j.
NumRows(matrix) == Len(matrix.orders)
NumCols(matrix) == Len(matrix.riders)

\* ---------------------------------------------------------------- Hungarian

\* padCostMatrix: the maxDim x maxDim matrix, the sentinel outside n x m.
padCostMatrix(costs, n, m, maxDim) ==
  [i \in 1..maxDim |->
    [j \in 1..maxDim |->
      IF i <= n /\ j <= m THEN costs[i][j] ELSE Sentinel]]

\* One column of the scan (the body of `if (!used[j])`): t carries minv,
\* way, delta and j1.
ScanStep(cur, j0, j, t) ==
  IF cur < t.minv[j]
  THEN [minv |-> [t.minv EXCEPT ![j] = cur], way |-> [t.way EXCEPT ![j] = j0],
        delta |-> IF cur < t.delta THEN cur ELSE t.delta,
        j1 |-> IF cur < t.delta THEN j ELSE t.j1]
  ELSE [minv |-> t.minv, way |-> t.way,
        delta |-> IF t.minv[j] < t.delta THEN t.minv[j] ELSE t.delta,
        j1 |-> IF t.minv[j] < t.delta THEN j ELSE t.j1]

\* The column scan of one step (for j = 1..n, not used[j]).
RECURSIVE ScanColumns(_, _, _, _, _, _, _, _, _)
ScanColumns(costs, n, i0, j0, used, u, v, j, t) ==
  IF j > n THEN t
  ELSE ScanColumns(costs, n, i0, j0, used, u, v, j + 1,
         IF used[j] THEN t
         ELSE ScanStep(costs[i0][j] - u[i0] - v[j], j0, j, t))

\* The potential update of one step (for j = 0..n), in the source's order.
RECURSIVE UpdatePotentials(_, _, _, _, _, _)
UpdatePotentials(n, used, p, delta, s, j) ==
  IF j > n THEN s
  ELSE UpdatePotentials(n, used, p, delta,
         IF used[j]
         THEN [s EXCEPT !.u[p[j]] = @ + delta, !.v[j] = @ - delta]
         ELSE [s EXCEPT !.minv[j] = @ - delta],
         j + 1)

\* One pass of the first do-while of row i: mark column j0, scan, update,
\* move to j1.  s carries u, v, way, minv, used and j0.
TreeUpdate(n, p, used, scan, s) ==
  UpdatePotentials(n, used, p, scan.delta,
    [u |-> s.u, v |-> s.v, minv |-> scan.minv, way |-> scan.way,
     used |-> used, j0 |-> scan.j1], 0)

TreeScan(costs, n, p, used, s) ==
  TreeUpdate(n, p, used,
    ScanColumns(costs, n, p[s.j0], s.j0, used, s.u, s.v, 1,
      [minv |-> s.minv, way |-> s.way, delta |-> Sentinel, j1 |-> 0]),
    s)

TreeStep(costs, n, p, s) ==
  TreeScan(costs, n, p, [s.used EXCEPT ![s.j0] = TRUE], s)

\* The first do-while of row i: grow the alternating tree until a free
\* column is reached (while p[j0] !== 0).
RECURSIVE GrowTree(_, _, _, _, _)
GrowTree(costs, n, p, s, first) ==
  IF first \/ p[s.j0] # 0
  THEN GrowTree(costs, n, p, TreeStep(costs, n, p, s), FALSE)
  ELSE s

\* The second do-while of row i: flip the path back to column 0.
RECURSIVE Augment(_, _, _)
Augment(p, way, j0) ==
  IF way[j0] # 0
  THEN Augment([p EXCEPT ![j0] = p[way[j0]]], way, way[j0])
  ELSE [p EXCEPT ![j0] = p[way[j0]]]

\* Row i once its tree is grown: s carries u, v, p and way.
AfterTree(p, tree) ==
  [u |-> tree.u, v |-> tree.v, p |-> Augment(p, tree.way, tree.j0),
   way |-> tree.way]

RowStep(costs, n, p, s) ==
  AfterTree(p,
    GrowTree(costs, n, p,
      [u |-> s.u, v |-> s.v, way |-> s.way,
       minv |-> [j \in 0..n |-> Sentinel],
       used |-> [j \in 0..n |-> FALSE], j0 |-> 0], TRUE))

\* The outer loop, for i = 1..n.
RECURSIVE HungarianRows(_, _, _, _)
HungarianRows(costs, n, s, i) ==
  IF i > n THEN s
  ELSE HungarianRows(costs, n, RowStep(costs, n, [s.p EXCEPT ![0] = i], s), i + 1)

\* The result loop of hungarianAlgorithm (for j = 1..n: result[p[j]-1] =
\* j-1): result[r] is the last column naming row r; a row no column names
\* stays undefined (0 here).
ColumnOfRow(p, n) ==
  [r \in 1..n |->
    IF \E j \in 1..n : p[j] = r
    THEN CHOOSE j \in 1..n : p[j] = r /\ \A k \in (j+1)..n : p[k] # r
    ELSE 0]

ZeroVector(n) == [j \in 0..n |-> 0]

hungarianAlgorithm(costs) ==
  ColumnOfRow(
    HungarianRows(costs, Len(costs),
      [u |-> ZeroVector(Len(costs)), v |-> ZeroVector(Len(costs)),
       p |-> ZeroVector(Len(costs)), way |-> ZeroVector(Len(costs))], 1).p,
    Len(costs))

\* The result loop of a solver (for orderIdx = 0..n-1): riderOf[i] is the
\* rider index chosen for row i, or 0 when the row is to be skipped.  The
\* assignments map is kept as the sequence of its <<orderId, riderId>>
\* entries in insertion order (order ids of a matrix are distinct).
RECURSIVE CollectPairs(_, _, _, _)
CollectPairs(matrix, riderOf, i, acc) ==
  IF i > NumRows(matrix) THEN acc
  ELSE CollectPairs(matrix, riderOf, i + 1,
         IF riderOf[i] = 0 THEN acc
         ELSE [assignments |->
                 Append(acc.assignments,
                        <<matrix.orders[i], matrix.riders[riderOf[i]]>>),
               totalCost |->
                 Plus(acc.totalCost, matrix.costMatrix[i][riderOf[i]])])

\* A solver's result record.
OptimizationResult(res, algorithm) ==
  [assignments |-> res.assignments, totalCost |-> res.totalCost,
   algorithm |-> algorithm]

\* The result loop with the bound compared by riderIdx < m - 1.
KeptColumnsButLast(assignment, n, m) ==
  [i \in 1..n |-> IF assignment[i] < m THEN assignment[i] ELSE 0]

\* The rows the Hungarian result loop keeps: padded columns
\* (riderIdx >= m) and undefined rows are dropped.
KeptColumns(assignment, n, m) ==
  [i \in 1..n |-> IF assignment[i] <= m THEN assignment[i] ELSE 0]

\* HungarianOptimizer.optimize: every other pair is returned.
HungarianOptimize(matrix) ==
  OptimizationResult(
    CollectPairs(matrix,
      KeptColumns(
        hungarianAlgorithm(
          padCostMatrix(matrix.costMatrix, NumRows(matrix), NumCols(matrix),
                        MaxOf(NumRows(matrix), NumCols(matrix)))),
        NumRows(matrix), NumCols(matrix)),
      1, [assignments |-> <<>>, totalCost |-> 0]),
    "hungarian")

\* ------------------------------------------------------------------ auction

epsilon == 1
maxIterations == 1000

\* The value of rider r to an order: -cost - price.
BidValue(costRow, prices, r) == Minus(Negate(costRow[r]), prices[r])

\* The first scan of an order's bid: the first rider of the highest value
\* (strictly greater wins; rider 0 of the source when none is).
RECURSIVE BestRiderScan(_, _, _, _, _)
BestRiderScan(costRow, prices, m, r, best) ==
  IF r > m THEN best
  ELSE LET value == BidValue(costRow, prices, r)
       IN BestRiderScan(costRow, prices, m, r + 1,
            IF value > best.bestValue
            THEN [bestRider |-> r, bestValue |-> value]
            ELSE best)

\* The second scan: the highest value among the other riders.
RECURSIVE SecondBestScan(_, _, _, _, _, _)
SecondBestScan(costRow, prices, m, bestRider, r, second) ==
  IF r > m THEN second
  ELSE SecondBestScan(costRow, prices, m, bestRider, r + 1,
         IF r # bestRider
         THEN MaxOf(second, BidValue(costRow, prices, r))
         ELSE second)

\* bids.get / bids.set: bids is the sequence of the map's entries in
\* insertion order; a higher bid replaces the entry of its rider in place.
PlaceBid(bids, rider, orderIdx, bid) ==
  IF \E k \in 1..Len(bids) : bids[k].rider = rider
  THEN [k \in 1..Len(bids) |->
         IF bids[k].rider = rider /\ bid > bids[k].bid
         THEN [rider |-> rider, orderIdx |-> orderIdx, bid |-> bid]
         ELSE bids[k]]
  ELSE Append(bids, [rider |-> rider, orderIdx |-> orderIdx, bid |-> bid])

\* The bidding loop of one round, over the unassigned orders in set order.
RECURSIVE CollectBids(_, _, _, _, _)
CollectBids(matrix, prices, unassigned, k, bids) ==
  IF k > Len(unassigned) THEN bids
  ELSE LET orderIdx == unassigned[k]
           m == NumCols(matrix)
           costRow == matrix.costMatrix[orderIdx]
           best == BestRiderScan(costRow, prices, m, 1,
                     [bestRider |-> 1, bestValue |-> NegInfinity])
           second == SecondBestScan(costRow, prices, m, best.bestRider, 1,
                       NegInfinity)
           bidAmount == Plus(Minus(Negate(costRow[best.bestRider]), second),
                             epsilon)
       IN CollectBids(matrix, prices, unassigned, k + 1,
                      PlaceBid(bids, best.bestRider, orderIdx, bidAmount))

\* Set.add: an element already in the set keeps its place.
SetAdd(seq, x) ==
  IF \E k \in 1..Len(seq) : seq[k] = x THEN seq ELSE Append(seq, x)

\* The award loop giving every bidder of the round the rider of the
\* round's first bid.
RECURSIVE AwardFirstRider(_, _, _, _)
AwardFirstRider(n, bids, k, s) ==
  IF k > Len(bids) THEN s
  ELSE AwardFirstRider(n, bids, k + 1,
         [assignments |-> [s.assignments EXCEPT ![bids[k].orderIdx] = bids[1].rider],
          prices |-> [s.prices EXCEPT ![bids[k].rider] = Plus(@, bids[k].bid)],
          unassigned |-> s.unassigned])

\* The award loop of one round, over the bids in map order: the first order
\* holding the rider goes back to the unassigned set, the bidder takes the
\* rider and the price rises by the bid.
RECURSIVE AwardBids(_, _, _, _)
AwardBids(n, bids, k, s) ==
  IF k > Len(bids) THEN s
  ELSE LET b == bids[k]
           holders == {i \in 1..n : s.assignments[i] = b.rider}
           unassigned1 ==
             IF holders = {} THEN s.unassigned
             ELSE SetAdd(s.unassigned,
                         CHOOSE i \in holders : \A h \in holders : i <= h)
       IN AwardBids(n, bids, k + 1,
            [assignments |-> [s.assignments EXCEPT ![b.orderIdx] = b.rider],
             prices |-> [s.prices EXCEPT ![b.rider] = Plus(@, b.bid)],
             unassigned |-> unassigned1])

\* The while loop: s carries prices, assignments (0 for the source's -1),
\* the unassigned set and the iteration count.
RECURSIVE AuctionRounds(_, _)
AuctionRounds(matrix, s) ==
  IF Len(s.unassigned) > 0 /\ s.iteration < maxIterations
  THEN LET bids == CollectBids(matrix, s.prices, s.unassigned, 1, <<>>)
           awarded == AwardBids(NumRows(matrix), bids, 1,
                        [assignments |-> s.assignments, prices |-> s.prices,
                         unassigned |-> <<>>])
       IN AuctionRounds(matrix,
            [assignments |-> awarded.assignments, prices |-> awarded.prices,
             unassigned |-> awarded.unassigned, iteration |-> s.iteration + 1])
  ELSE s

AuctionRun(matrix) ==
  AuctionRounds(matrix,
    [assignments |-> [i \in 1..NumRows(matrix) |-> 0],
     prices |-> [j \in 1..NumCols(matrix) |-> 0],
     unassigned |-> [i \in 1..NumRows(matrix) |-> i],
     iteration |-> 0])

\* AuctionOptimizer.optimize.
AuctionOptimize(matrix) ==
  LET run == AuctionRun(matrix)
      res == CollectPairs(matrix, run.assignments, 1,
                          [assignments |-> <<>>, totalCost |-> 0])
  IN [assignments |-> res.assignments, totalCost |-> res.totalCost,
      algorithm |-> "auction"]

\* ------------------------------------------------------------------- greedy

\* The rider scan with the comparison reversed.
RECURSIVE CostliestRiderScan(_, _, _, _)
CostliestRiderScan(costRow, m, r, best) ==
  IF r > m THEN best
  ELSE CostliestRiderScan(costRow, m, r + 1,
         IF costRow[r] > best.bestCost
         THEN [bestRider |-> r, bestCost |-> costRow[r]]
         ELSE best)

\* The rider scan of one order: the first rider of the lowest cost.
RECURSIVE CheapestRiderScan(_, _, _, _)
CheapestRiderScan(costRow, m, r, best) ==
  IF r > m THEN best
  ELSE CheapestRiderScan(costRow, m, r + 1,
         IF costRow[r] < best.bestCost
         THEN [bestRider |-> r, bestCost |-> costRow[r]]
         ELSE best)

\* GreedyOptimizer.optimize: every order takes its cheapest rider, whatever
\* the rider already carries.
GreedyOptimize(matrix) ==
  LET m == NumCols(matrix)
      riderOf == [i \in 1..NumRows(matrix) |->
                   CheapestRiderScan(matrix.costMatrix[i], m, 1,
                     [bestRider |-> 1, bestCost |-> Infinity]).bestRider]
      res == CollectPairs(matrix, riderOf, 1,
                          [assignments |-> <<>>, totalCost |-> 0])
  IN [assignments |-> res.assignments, totalCost |-> res.totalCost,
      algorithm |-> "greedy"]

\* ----------------------------------------------------------------- adaptive

auctionThreshold == 50000

\* The size tests with both bounds exclusive.
AdaptiveChoiceExclusive(problemSize, hungarianThreshold) ==
  IF problemSize < hungarianThreshold THEN "hungarian"
  ELSE IF problemSize < auctionThreshold THEN "auction"
  ELSE "greedy"

\* The size tests of AdaptiveOptimizer.optimize: the solver whose result is
\* returned (no solver of this model throws).
AdaptiveChoice(problemSize, hungarianThreshold) ==
  IF problemSize <= hungarianThreshold THEN "hungarian"
  ELSE IF problemSize <= auctionThreshold THEN "auction"
  ELSE "greedy"

\* AdaptiveOptimizer.optimize
AdaptiveOptimize(matrix, hungarianThreshold) ==
  LET solver == AdaptiveChoice(NumRows(matrix) * NumCols(matrix), hungarianThreshold)
  IN IF solver = "hungarian" THEN HungarianOptimize(matrix)
     ELSE IF solver = "auction" THEN AuctionOptimize(matrix)
     ELSE GreedyOptimize(matrix)

\* ------------------------------------------------------ reassignment engine

NumOrders == 2
OrderIds == 1..NumOrders

maxReassignmentAttempts == 3
minIntervalMs == 30000

\* Map.get(key) || fallback
MapGet(map, key, fallback) == IF key \in DOMAIN map THEN map[key] ELSE fallback

\* Map.set(key, value)
MapSet(map, key, value) ==
  [k \in DOMAIN map \cup {key} |-> IF k = key THEN value ELSE map[k]]

EmptyMap == [k \in {} |-> 0]

\* canReassign with the attempt limit compared by > instead of >=.
canReassignOneAttemptLate(counts, lastTimes, nowSeconds, orderId) ==
  IF MapGet(counts, orderId, 0) > maxReassignmentAttempts THEN FALSE
  ELSE IF orderId \in DOMAIN lastTimes
          /\ (nowSeconds - lastTimes[orderId]) * 1000 < minIntervalMs
       THEN FALSE
       ELSE TRUE

\* ReassignmentEngine.canReassign, with the engine's maps and the wall clock
\* as parameters.
canReassignIn(counts, lastTimes, nowSeconds, orderId) ==
  LET count == MapGet(counts, orderId, 0)
  IN IF count >= maxReassignmentAttempts THEN FALSE
     ELSE IF orderId \in DOMAIN lastTimes
             /\ (nowSeconds - lastTimes[orderId]) * 1000 < minIntervalMs
          THEN FALSE
          ELSE TRUE

canReassign(orderId) ==
  canReassignIn(reassignmentCounts, lastReassignmentTime, clock, orderId)

\* ReassignmentEngine.recordReassignment: the new reassignmentCounts.
recordReassignmentCount(counts, orderId) ==
  MapSet(counts, orderId, MapGet(counts, orderId, 0) + 1)

\* ReassignmentEngine.recordReassignment: the new lastReassignmentTime.
recordReassignmentTime(lastTimes, nowSeconds, orderId) ==
  MapSet(lastTimes, orderId, nowSeconds)

\* --------------------------------------------------------------- geospatial

\* Locations lie on one meridian and are given in units of 100 m, so the
\* great-circle distance is the difference of the coordinates.  Times are
\* in seconds since the start of the run.

\* haversineDistance, in units of 100 m.
haversineDistance(loc1, loc2) == IF loc1 >= loc2 THEN loc1 - loc2 ELSE loc2 - loc1

\* estimateTravelTime: Math.round(distanceKm / averageSpeedKmh * 60 *
\* trafficFactor) minutes; the traffic factor is given in tenths.
estimateTravelTime(origin, destination, averageSpeedKmh, trafficTenths) ==
  (2 * haversineDistance(origin, destination) * 6 * trafficTenths
     + averageSpeedKmh * 10) \div (2 * averageSpeedKmh * 10)

\* The keys of a map in iteration order (maps are filled in id order).
RECURSIVE MapKeys(_)
MapKeys(keys) ==
  IF keys = {} THEN <<>>
  ELSE <<CHOOSE k \in keys : \A other \in keys : k <= other>>
         \o MapKeys(keys \ {CHOOSE k \in keys : \A other \in keys : k <= other})

\* findRidersWithinRadius: the riders at distance <= radiusKm, in map order.
findRidersWithinRadius(targetLocation, locations, radiusKm) ==
  SelectSeq(MapKeys(DOMAIN locations),
            LAMBDA riderId :
              haversineDistance(targetLocation, locations[riderId]) <= radiusKm * 10)

\* ------------------------------------------------------ candidate generation

initialRadiusKm == 5
expandedRadiusKm == 10
maxRadiusKm == 20
radiusExpansionMinutesThreshold == 20
maxContinuousDrivingMinutes == 120
maxShiftDrivingMinutes == 480

\* The scans with the radius widened whether or not a rider was found.
ExpandScanAlways(order, locations, scanned, searchRadiusKm, nextRadiusKm) ==
  IF searchRadiusKm < nextRadiusKm
  THEN [radius |-> nextRadiusKm,
        found |-> findRidersWithinRadius(order.pickup.location, locations, nextRadiusKm)]
  ELSE [radius |-> searchRadiusKm, found |-> scanned]

\* The second and third scans of geographicFilter: scanned is the result
\* of the scan at searchRadiusKm.
ExpandScan(order, locations, scanned, searchRadiusKm, nextRadiusKm) ==
  IF Len(scanned) = 0 /\ searchRadiusKm < nextRadiusKm
  THEN [radius |-> nextRadiusKm,
        found |-> findRidersWithinRadius(order.pickup.location, locations, nextRadiusKm)]
  ELSE [radius |-> searchRadiusKm, found |-> scanned]

ExpandToMax(order, locations, second) ==
  ExpandScan(order, locations, second.found, second.radius, maxRadiusKm).found

\* The filter with the SLA test compared by <= instead of <.
geographicFilterAtThreshold(order, locations, now) ==
  IF order.slaDeadline - now <= radiusExpansionMinutesThreshold * 60
  THEN findRidersWithinRadius(order.pickup.location, locations, maxRadiusKm)
  ELSE ExpandToMax(order, locations,
         ExpandScan(order, locations,
           findRidersWithinRadius(order.pickup.location, locations, initialRadiusKm),
           initialRadiusKm, expandedRadiusKm))

\* CandidateGenerator.geographicFilter
geographicFilter(order, locations, now) ==
  IF order.slaDeadline - now < radiusExpansionMinutesThreshold * 60
  THEN findRidersWithinRadius(order.pickup.location, locations, maxRadiusKm)
  ELSE ExpandToMax(order, locations,
         ExpandScan(order, locations,
           findRidersWithinRadius(order.pickup.location, locations, initialRadiusKm),
           initialRadiusKm, expandedRadiusKm))

capacityCheck(order, rider) ==
  /\ rider.vehicle.maxWeightKg - rider.load.weightKg >= order.payload.weightKg
  /\ rider.vehicle.maxVolumeLiters - rider.load.volumeLiters
       >= order.payload.volumeLiters
  /\ rider.vehicle.maxItems - rider.load.itemCount >= order.payload.itemCount

vehicleCompatibilityCheck(order, rider) ==
  IF order.payload.vehicleRequirement = "any" THEN TRUE
  ELSE IF order.payload.vehicleRequirement \in {"bike", "car", "van"}
  THEN rider.vehicle.type = order.payload.vehicleRequirement
  ELSE IF order.payload.vehicleRequirement = "refrigerated"
  THEN "cold_chain" \in rider.vehicle.capabilities
  ELSE IF order.payload.fragile /\ "fragile" \notin rider.vehicle.capabilities
  THEN FALSE
  ELSE IF order.payload.requiresColdChain
          /\ "cold_chain" \notin rider.vehicle.capabilities
  THEN FALSE
  ELSE TRUE

\* timeToPickup + pickupService + timeToDelivery + deliveryService, minutes.
TotalMinutes(order, rider, trafficTenths) ==
  estimateTravelTime(rider.location, order.pickup.location, 25, trafficTenths)
  + order.pickup.estimatedPickupWaitMinutes
  + estimateTravelTime(order.pickup.location, order.delivery.location, 25,
                       trafficTenths)
  + 3

shiftTimeCheck(order, rider, now) ==
  rider.shift.endTime - now >= (TotalMinutes(order, rider, 12) + 5) * 60

fatigueCheck(rider) ==
  /\ rider.shift.continuousDrivingMinutes < maxContinuousDrivingMinutes
  /\ rider.shift.totalShiftDrivingMinutes < maxShiftDrivingMinutes

slaFeasibilityCheck(order, rider, now) ==
  now + TotalMinutes(order, rider, 10) * 60 <= order.slaDeadline

riderStatusCheck(rider) == rider.status \in {"active", "on_delivery"}

\* CandidateGenerator.runHardConstraints: passed iff no check fails.
runHardConstraints(order, rider, now) ==
  /\ capacityCheck(order, rider)
  /\ vehicleCompatibilityCheck(order, rider)
  /\ shiftTimeCheck(order, rider, now)
  /\ fatigueCheck(rider)
  /\ slaFeasibilityCheck(order, rider, now)
  /\ riderStatusCheck(rider)

\* The result with one failure reason for every empty candidate list.
CandidatesAmongOneReason(order, ridersMap, now, candidatesByRadius, passing) ==
  IF Len(passing) = 0
  THEN [orderId |-> order.orderId, candidateRiderIds |-> <<>>,
        failureReason |-> "no_riders_in_service_radius"]
  ELSE [orderId |-> order.orderId, candidateRiderIds |-> passing,
        failureReason |-> "none"]

\* The result of generateCandidates once the geographic scan is known.
CandidatesAmong(order, ridersMap, now, candidatesByRadius, passing) ==
  IF Len(candidatesByRadius) = 0
  THEN [orderId |-> order.orderId, candidateRiderIds |-> <<>>,
        failureReason |-> "no_riders_in_service_radius"]
  ELSE IF Len(passing) = 0
  THEN [orderId |-> order.orderId, candidateRiderIds |-> <<>>,
        failureReason |-> "all_riders_failed_constraints"]
  ELSE [orderId |-> order.orderId, candidateRiderIds |-> passing,
        failureReason |-> "none"]

PassingRiders(order, ridersMap, now, candidatesByRadius) ==
  CandidatesAmong(order, ridersMap, now, candidatesByRadius,
    SelectSeq(candidatesByRadius,
              LAMBDA riderId :
                /\ riderId \in DOMAIN ridersMap
                /\ runHardConstraints(order, ridersMap[riderId], now)))

\* CandidateGenerator.generateCandidates
generateCandidates(order, ridersMap, locations, now) ==
  PassingRiders(order, ridersMap, now, geographicFilter(order, locations, now))

\* ------------------------------------------------------------ surge handler

softSurgeRatioTenths == 12
hardSurgeRatioTenths == 15
crisisRatioTenths == 20

\* The level with the thresholds compared by > instead of >=.
SurgeLevelAboveThreshold(pendingOrders, denominator) ==
  IF pendingOrders * 10 > crisisRatioTenths * denominator THEN "crisis"
  ELSE IF pendingOrders * 10 > hardSurgeRatioTenths * denominator THEN "hard_surge"
  ELSE IF pendingOrders * 10 > softSurgeRatioTenths * denominator THEN "soft_surge"
  ELSE "normal"

\* The level of a demand/supply ratio pendingOrders / denominator.
SurgeLevelOf(pendingOrders, denominator) ==
  IF pendingOrders * 10 >= crisisRatioTenths * denominator THEN "crisis"
  ELSE IF pendingOrders * 10 >= hardSurgeRatioTenths * denominator THEN "hard_surge"
  ELSE IF pendingOrders * 10 >= softSurgeRatioTenths * denominator THEN "soft_surge"
  ELSE "normal"

SurgeActions(level) ==
  IF level = "crisis"
  THEN <<"escalate_sla_windows", "notify_customers", "activate_emergency_protocol",
         "request_additional_supply">>
  ELSE IF level = "hard_surge"
  THEN <<"enable_preposioning", "hold_sla_orders", "increase_batch_sizes",
         "expand_search_radius">>
  ELSE IF level = "soft_surge"
  THEN <<"increase_batch_sizes_by_1", "expand_candidate_radius_50pct",
         "reduce_fairness_weight">>
  ELSE <<>>

\* SurgeHandler.detectSurge.  With no rider in the map activeBatchCapacity
\* is Math.max() = -Infinity, 0 * -Infinity is NaN and every comparison of
\* the ratio fails.
detectSurge(pendingOrders, availableRiders, activeBatchCapacity) ==
  IF activeBatchCapacity = NegInfinity /\ availableRiders = 0
  THEN [level |-> "normal", pendingOrderCount |-> pendingOrders,
        availableCapacity |-> "NaN", recommendedActions |-> <<>>]
  ELSE [level |->
          SurgeLevelOf(pendingOrders, MaxOf(availableRiders * activeBatchCapacity, 1)),
        pendingOrderCount |-> pendingOrders,
        availableCapacity |-> availableRiders * activeBatchCapacity,
        recommendedActions |->
          SurgeActions(
            SurgeLevelOf(pendingOrders,
                         MaxOf(availableRiders * activeBatchCapacity, 1)))]

\* ------------------------------------------ reassignment trigger detection

suppressionRadiusMeters == 500
triggerEtaSpikeMinutes == 15
triggerHighPrioritySlaCutoffMinutes == 20

\* Array.from(new Set(seq)): the first occurrences, in order.
RECURSIVE UniqueInOrder(_, _, _)
UniqueInOrder(seq, k, acc) ==
  IF k > Len(seq) THEN acc
  ELSE UniqueInOrder(seq, k + 1, SetAdd(acc, seq[k]))

\* The assignments of the map, in iteration order.
AssignmentsOf(assigned) == [k \in 1..Len(MapKeys(DOMAIN assigned)) |->
                             assigned[MapKeys(DOMAIN assigned)[k]]]

Trigger(type, affectedOrderIds) ==
  IF Len(affectedOrderIds) > 0
  THEN << [type |-> type, affectedOrderIds |-> affectedOrderIds] >>
  ELSE <<>>

OrderIdsOf(entries) == UniqueInOrder([k \in 1..Len(entries) |-> entries[k].orderId], 1, <<>>)

detectOfflineRiders(ridersMap, assigned, now) ==
  Trigger("rider_offline",
    OrderIdsOf(SelectSeq(AssignmentsOf(assigned),
      LAMBDA a : a.riderId \notin DOMAIN ridersMap
                 \/ ridersMap[a.riderId].status = "offline")))

detectETASpikes(ordersMap, assigned, ridersMap, now) ==
  Trigger("eta_spike",
    OrderIdsOf(SelectSeq(AssignmentsOf(assigned),
      LAMBDA a :
        /\ a.orderId \in DOMAIN ordersMap
        /\ a.riderId \in DOMAIN ridersMap
        /\ estimateTravelTime(ridersMap[a.riderId].location,
                              ordersMap[a.orderId].delivery.location, 25, 12) * 60
             - (a.estimatedDeliveryAt - a.assignedAt)
           > triggerEtaSpikeMinutes * 60)))

\* The priority order of detectHighPriorityArrivals is affected when some
\* assignment of a normal order has its rider within 3 km of the pickup;
\* the id added is the priority order's.
PriorityOrderAffected(order, ordersMap, assigned, ridersMap, now) ==
  /\ \/ order.priority = "critical"
     \/ order.priority = "high" /\ order.orderId \notin DOMAIN assigned
  /\ order.slaDeadline <= now + triggerHighPrioritySlaCutoffMinutes * 60
  /\ \E key \in DOMAIN assigned :
       /\ assigned[key].orderId \in DOMAIN ordersMap
       /\ ordersMap[assigned[key].orderId].priority = "normal"
       /\ assigned[key].riderId \in DOMAIN ridersMap
       /\ haversineDistance(ridersMap[assigned[key].riderId].location,
                            order.pickup.location) < 3 * 10

detectHighPriorityArrivals(ordersMap, assigned, ridersMap, now) ==
  Trigger("high_priority_arrival",
    SelectSeq(MapKeys(DOMAIN ordersMap),
      LAMBDA orderId :
        PriorityOrderAffected(ordersMap[orderId], ordersMap, assigned, ridersMap, now)))

\* An idle rider yields a trigger without affected orders.
detectNewRidersInDemandZones(ridersMap, now) ==
  IF \E riderId \in DOMAIN ridersMap :
       /\ ridersMap[riderId].status = "active"
       /\ Len(ridersMap[riderId].currentAssignments) = 0
  THEN << [type |-> "new_rider_online", affectedOrderIds |-> <<>>] >>
  ELSE <<>>

\* ReassignmentEngine.detectTriggers
detectTriggers(ordersMap, ridersMap, assigned, now) ==
  detectOfflineRiders(ridersMap, assigned, now)
    \o detectETASpikes(ordersMap, assigned, ridersMap, now)
    \o detectHighPriorityArrivals(ordersMap, assigned, ridersMap, now)
    \o detectNewRidersInDemandZones(ridersMap, now)

\* ReassignmentEngine.isReassignmentSuppressed
isReassignmentSuppressed(rider, pickupLocation) ==
  haversineDistance(rider.location, pickupLocation) * 100 < suppressionRadiusMeters

\* -------------------------------------------------------- the orchestrator

NumRiders == 3
RiderIds == 1..NumRiders
NoRider == 0
hungarianThreshold == 10000
ScoreCosts == {40, 50}

\* The unassigned orders taken as every order not yet delivered or
\* cancelled.
OrdersNotClosed(ordersMap) ==
  SelectSeq(MapKeys(DOMAIN ordersMap),
            LAMBDA orderId : ordersMap[orderId].status \notin {"delivered", "cancelled"})

\* The orders with status pending_assignment, in map order.
PendingOrders(ordersMap) ==
  SelectSeq(MapKeys(DOMAIN ordersMap),
            LAMBDA orderId : ordersMap[orderId].status = "pending_assignment")

\* stage1CandidateGeneration: the candidate riders of each given order.
stage1CandidateGeneration(unassignedOrders, now) ==
  [orderId \in {unassignedOrders[k] : k \in 1..Len(unassignedOrders)} |->
    generateCandidates(orders[orderId], riders, riderLocations, now).candidateRiderIds]

\* The (order, rider) pairs stage 2 scores.
ScoredPairs(candidates) ==
  {pair \in (DOMAIN candidates) \X (DOMAIN riders) :
     \E k \in 1..Len(candidates[pair[1]]) : candidates[pair[1]][k] = pair[2]}

\* The scores of one order: one per candidate rider found in the rider
\* map, in order.  The scorer's cost of a pair is costOf[pair].
ScoresOf(orderId, candidateRiders, costOf) ==
  [c \in 1..Len(candidateRiders) |->
    [orderId |-> orderId, riderId |-> candidateRiders[c],
     cost |-> costOf[<<orderId, candidateRiders[c]>>]]]

\* stage2Scoring
RECURSIVE stage2Scoring(_, _, _, _)
stage2Scoring(unassignedOrders, candidates, costOf, k) ==
  IF k > Len(unassignedOrders) THEN <<>>
  ELSE ScoresOf(unassignedOrders[k],
                SelectSeq(candidates[unassignedOrders[k]],
                          LAMBDA riderId : riderId \in DOMAIN riders),
                costOf)
       \o stage2Scoring(unassignedOrders, candidates, costOf, k + 1)

\* The cost matrix of stage 3: the sentinel where no score exists, the
\* last score of the pair otherwise.
CostEntry(scores, orderId, riderId) ==
  IF \E k \in 1..Len(scores) :
       scores[k].orderId = orderId /\ scores[k].riderId = riderId
  THEN scores[CHOOSE k \in 1..Len(scores) :
                /\ scores[k].orderId = orderId /\ scores[k].riderId = riderId
                /\ \A later \in (k + 1)..Len(scores) :
                     ~(scores[later].orderId = orderId
                       /\ scores[later].riderId = riderId)].cost
  ELSE Sentinel

BuildMatrix(scores, orderIds, riderIds) ==
  [orders |-> orderIds, riders |-> riderIds,
   costMatrix |-> [i \in 1..Len(orderIds) |->
                    [j \in 1..Len(riderIds) |->
                      CostEntry(scores, orderIds[i], riderIds[j])]]]

AssignmentMatrixOf(scores) ==
  BuildMatrix(scores,
    UniqueInOrder([k \in 1..Len(scores) |-> scores[k].orderId], 1, <<>>),
    UniqueInOrder([k \in 1..Len(scores) |-> scores[k].riderId], 1, <<>>))

\* The solver of a cycle: the size dispatch of the adaptive optimizer, or
\* one solver whatever the size.
OptimizeOn(path, matrix) ==
  IF path = "hungarian" THEN HungarianOptimize(matrix)
  ELSE IF path = "auction" THEN AuctionOptimize(matrix)
  ELSE IF path = "greedy" THEN GreedyOptimize(matrix)
  ELSE AdaptiveOptimize(matrix, hungarianThreshold)

\* stage3GlobalOptimization
stage3GlobalOptimization(scores, path) == OptimizeOn(path, AssignmentMatrixOf(scores))

\* The loop body with sequenceIndex read after the push.
DecideOneIndexAfterPush(orderId, riderId, s) ==
  [orders |-> [s.orders EXCEPT ![orderId].status = "assigned",
                               ![orderId].assignedRiderId = riderId,
                               ![orderId].assignmentAttempts = @ + 1],
   riders |-> [s.riders EXCEPT ![riderId].currentAssignments = Append(@, orderId)],
   decisions |-> Append(s.decisions,
                   [orderId |-> orderId, riderId |-> riderId,
                    sequenceIndex |-> Len(s.riders[riderId].currentAssignments) + 1])]

\* The loop body without the status write.
DecideOneKeepingStatus(orderId, riderId, s) ==
  [orders |-> [s.orders EXCEPT ![orderId].assignedRiderId = riderId,
                               ![orderId].assignmentAttempts = @ + 1],
   riders |-> [s.riders EXCEPT ![riderId].currentAssignments = Append(@, orderId)],
   decisions |-> Append(s.decisions,
                   [orderId |-> orderId, riderId |-> riderId,
                    sequenceIndex |-> Len(s.riders[riderId].currentAssignments)])]

\* The body of the loop of createAssignmentDecisions, for a pair whose
\* order and rider exist: s carries orders, riders and decisions.
DecideOne(orderId, riderId, s) ==
  [orders |-> [s.orders EXCEPT ![orderId].status = "assigned",
                               ![orderId].assignedRiderId = riderId,
                               ![orderId].assignmentAttempts = @ + 1],
   riders |-> [s.riders EXCEPT ![riderId].currentAssignments = Append(@, orderId)],
   decisions |-> Append(s.decisions,
                   [orderId |-> orderId, riderId |-> riderId,
                    sequenceIndex |-> Len(s.riders[riderId].currentAssignments)])]

\* createAssignmentDecisions, over the solver's pairs in map order.
RECURSIVE createAssignmentDecisions(_, _, _)
createAssignmentDecisions(assigned, k, s) ==
  IF k > Len(assigned) THEN s
  ELSE createAssignmentDecisions(assigned, k + 1,
         IF assigned[k][1] \in DOMAIN s.orders /\ assigned[k][2] \in DOMAIN s.riders
         THEN DecideOne(assigned[k][1], assigned[k][2], s)
         ELSE s)

\* The body of the loop of handleReassignmentTrigger for an order that
\* exists: s carries orders, counts, lastTimes and recorded.
ReassignOne(orderId, ridersMap, now, s) ==
  IF ~canReassignIn(s.counts, s.lastTimes, now, orderId) THEN s
  ELSE IF /\ s.orders[orderId].assignedRiderId \in DOMAIN ridersMap
          /\ isReassignmentSuppressed(ridersMap[s.orders[orderId].assignedRiderId],
                                      s.orders[orderId].pickup.location)
  THEN s
  ELSE [orders |-> [s.orders EXCEPT ![orderId].status = "pending_assignment",
                                    ![orderId].assignedRiderId = NoRider],
        counts |-> recordReassignmentCount(s.counts, orderId),
        lastTimes |-> recordReassignmentTime(s.lastTimes, now, orderId),
        recorded |-> Append(s.recorded, [orderId |-> orderId, at |-> now])]

\* handleReassignmentTrigger, over the affected orders of one trigger.
RECURSIVE handleReassignmentTrigger(_, _, _, _, _)
handleReassignmentTrigger(affectedOrderIds, k, ridersMap, now, s) ==
  IF k > Len(affectedOrderIds) THEN s
  ELSE handleReassignmentTrigger(affectedOrderIds, k + 1, ridersMap, now,
         IF affectedOrderIds[k] \in DOMAIN s.orders
         THEN ReassignOne(affectedOrderIds[k], ridersMap, now, s)
         ELSE s)

\* The loop of executeCycle over the detected triggers.
RECURSIVE HandleTriggers(_, _, _, _, _)
HandleTriggers(triggers, k, ridersMap, now, s) ==
  IF k > Len(triggers) THEN s
  ELSE HandleTriggers(triggers, k + 1, ridersMap, now,
         handleReassignmentTrigger(triggers[k].affectedOrderIds, 1, ridersMap, now, s))

\* ------------------------------------------------------------ configuration

\* Weights are in units of 0.0001, surge ratios in tenths, radii in km.
WeightKeys == {"w1_time", "w2_slaRisk", "w3_distance", "w4_batchDisruption",
               "w5_workload", "w6_affinity"}

DEFAULT_SCORING_WEIGHTS ==
  [w1_time |-> 3000, w2_slaRisk |-> 3500, w3_distance |-> 1500,
   w4_batchDisruption |-> 1200, w5_workload |-> 500, w6_affinity |-> 300]

DEFAULT_CANDIDATE_GENERATION_CONFIG ==
  [initialRadiusKm |-> initialRadiusKm, expandedRadiusKm |-> expandedRadiusKm,
   maxRadiusKm |-> maxRadiusKm]

DEFAULT_SURGE_CONFIG ==
  [softSurgeRatio |-> softSurgeRatioTenths, hardSurgeRatio |-> hardSurgeRatioTenths,
   crisisRatio |-> crisisRatioTenths]

cycleIntervalSeconds == 30

DEFAULT_ENGINE_CONFIG ==
  [cycleIntervalSeconds |-> cycleIntervalSeconds,
   weights |-> DEFAULT_SCORING_WEIGHTS,
   candidateGeneration |-> DEFAULT_CANDIDATE_GENERATION_CONFIG,
   surge |-> DEFAULT_SURGE_CONFIG]

\* 1.0 and the tolerance 0.01 of build(), in units of 0.0001.
One == 10000
weightTolerance == 100

\* The additions of build() round: the computed sum is the exact sum up to
\* a rounding error, which decides the comparison only when the exact sum
\* is 0.01 away from 1.0.
RoundingErrors == {-1, 0, 1}

RECURSIVE SumOver(_, _)
SumOver(weights, keys) ==
  IF keys = {} THEN 0
  ELSE LET key == CHOOSE k \in keys : TRUE
       IN weights[key] + SumOver(weights, keys \ {key})

\* Object.values(this.config.weights).reduce((a, b) => a + b, 0)
weightSum(weights, rounding) == SumOver(weights, DOMAIN weights) + rounding

\* The test of build() with a tolerance of 0.1.
buildThrowsBeyondTenth(sum) ==
  (IF sum >= One THEN sum - One ELSE One - sum) > 10 * weightTolerance

\* Math.abs(weightSum - 1.0) > 0.01
buildThrows(sum) ==
  (IF sum >= One THEN sum - One ELSE One - sum) > weightTolerance

\* What build() gives its caller: the error thrown or the configuration.
buildOutcome(builderConfig, sum) ==
  IF buildThrows(sum)
  THEN [op |-> "build", threw |-> TRUE,
        message |-> "Scoring weights must sum to 1.0", weightSum |-> sum]
  ELSE [op |-> "build", threw |-> FALSE, config |-> builderConfig, weightSum |-> sum]

MaxCalls == 3
MaxOffline == 1
MaxUpdates == 2

engineVars == <<orders, riders, riderLocations, assignments, surgeState, cycleCount,
                cycleHistory, calls, lastCall, updates, config, etaCache,
                riderModelCache>>

NoCall == [pending |-> <<>>, candidates |-> EmptyMap, algorithm |-> "none",
           result |-> [cycleId |-> 0, decisions |-> <<>>, successCount |-> 0,
                       failureCount |-> 0]]

\* The engine as its constructor leaves it.
EngineConstructed ==
  /\ orders = EmptyMap
  /\ riders = EmptyMap
  /\ riderLocations = EmptyMap
  /\ assignments = EmptyMap
  /\ config = DEFAULT_ENGINE_CONFIG
  /\ surgeState = [level |-> "normal", pendingOrderCount |-> 0,
                   availableCapacity |-> 0, recommendedActions |-> <<>>]
  /\ cycleCount = 0
  /\ cycleHistory = <<>>
  /\ calls = 0
  /\ lastCall = NoCall
  /\ updates = <<>>
  /\ etaCache = EmptyMap
  /\ riderModelCache = EmptyMap

\* The result with failureCount taken as the number of pending orders.
CycleResultCountingPending(decisions, pendingCount) ==
  [cycleId |-> cycleCount, decisions |-> decisions,
   successCount |-> Len(decisions), failureCount |-> pendingCount]

\* The AssignmentCycleResult of a cycle: of the cycleId the counter is kept,
\* the timestamp and the metrics are not modelled.
CycleResult(decisions, pendingCount) ==
  [cycleId |-> cycleCount, decisions |-> decisions,
   successCount |-> Len(decisions), failureCount |-> pendingCount - Len(decisions)]

AvailableRiders ==
  Cardinality({riderId \in DOMAIN riders :
                 riders[riderId].status \in {"active", "on_delivery"}})

\* Math.max(...maxItems of the riders)
ActiveBatchCapacity ==
  IF DOMAIN riders = {} THEN NegInfinity
  ELSE CHOOSE most \in {riders[riderId].vehicle.maxItems : riderId \in DOMAIN riders} :
         \A riderId \in DOMAIN riders : most >= riders[riderId].vehicle.maxItems

\* The end of executeCycle: the state written back, the result pushed and
\* returned.
FinishCycle(unassignedOrders, candidates, algorithm, decided, handled) ==
  /\ orders' = handled.orders
  /\ riders' = decided.riders
  /\ reassignmentCounts' = handled.counts
  /\ lastReassignmentTime' = handled.lastTimes
  /\ recorded' = handled.recorded
  /\ cycleHistory' =
       Append(cycleHistory, CycleResult(decided.decisions, Len(unassignedOrders)))
  /\ cycleCount' = cycleCount + 1
  /\ lastCall' = [pending |-> unassignedOrders, candidates |-> candidates,
                  algorithm |-> algorithm,
                  result |-> CycleResult(decided.decisions, Len(unassignedOrders))]

\* Trigger detection and handling, on the orders and riders the decisions
\* left.
AfterDecisions(unassignedOrders, candidates, algorithm, decided) ==
  FinishCycle(unassignedOrders, candidates, algorithm, decided,
    HandleTriggers(detectTriggers(decided.orders, decided.riders, assignments, clock),
                   1, decided.riders, clock,
                   [orders |-> decided.orders, counts |-> reassignmentCounts,
                    lastTimes |-> lastReassignmentTime, recorded |-> recorded]))

AfterOptimization(unassignedOrders, candidates, optimized) ==
  AfterDecisions(unassignedOrders, candidates, optimized.algorithm,
    createAssignmentDecisions(optimized.assignments, 1,
      [orders |-> orders, riders |-> riders, decisions |-> <<>>]))

\* Stages 2 and 3 and what follows, for each cost the scorer may give.
RunStages(unassignedOrders, candidates, path) ==
  \E costOf \in [ScoredPairs(candidates) -> ScoreCosts] :
    AfterOptimization(unassignedOrders, candidates,
      stage3GlobalOptimization(
        stage2Scoring(unassignedOrders, candidates, costOf, 1), path))

\* The return of executeCycle when no order is pending.
ReturnEmpty ==
  /\ lastCall' = [NoCall EXCEPT !.result.cycleId = cycleCount]
  /\ UNCHANGED <<orders, riders, reassignmentCounts, lastReassignmentTime,
                 recorded, cycleHistory, cycleCount>>

\* AssignmentEngine.executeCycle, with the solver taken on the given path.
ExecuteCycleOn(path) ==
  /\ calls < MaxCalls
  /\ calls' = calls + 1
  /\ surgeState' = detectSurge(Len(PendingOrders(orders)), AvailableRiders,
                               ActiveBatchCapacity)
  /\ IF Len(PendingOrders(orders)) = 0
     THEN ReturnEmpty
     ELSE RunStages(PendingOrders(orders),
                    stage1CandidateGeneration(PendingOrders(orders), clock), path)
  /\ UNCHANGED <<riderLocations, assignments, clock, answer, solverInput,
                 solverResult, updates, config, etaCache, riderModelCache>>

\* AssignmentEngine.executeCycle
ExecuteCycle ==ExecuteCycleOn("adaptive")

\* The snapshots handed to updateState: orders and riders drawn from
\* profiles.
Bike == [type |-> "bike", maxWeightKg |-> 5, maxVolumeLiters |-> 20,
         maxItems |-> 3, capabilities |-> {"standard"}]
Van == [type |-> "van", maxWeightKg |-> 50, maxVolumeLiters |-> 200,
        maxItems |-> 10, capabilities |-> {"standard", "fragile"}]

OrderProfiles ==
  {[status |-> status, weightKg |-> 2] :
     status \in {"pending_assignment", "picked_up", "delivered", "cancelled"}}
  \cup {[status |-> "pending_assignment", weightKg |-> 8]}

RiderProfiles ==
  {[location |-> 10, vehicle |-> Van], [location |-> 10, vehicle |-> Bike],
   [location |-> 300, vehicle |-> Bike]}

OrderOf(orderId, profile) ==
  [orderId |-> orderId, status |-> profile.status, slaDeadline |-> 3600,
   pickup |-> [location |-> 0, estimatedPickupWaitMinutes |-> 5],
   delivery |-> [location |-> 20],
   payload |-> [weightKg |-> profile.weightKg, volumeLiters |-> 5, itemCount |-> 1,
                requiresColdChain |-> FALSE, fragile |-> FALSE,
                vehicleRequirement |-> "any"],
   priority |-> "normal", assignmentAttempts |-> 0, assignedRiderId |-> NoRider]

RiderOf(riderId, profile) ==
  [riderId |-> riderId, status |-> "active", location |-> profile.location,
   vehicle |-> profile.vehicle,
   shift |-> [endTime |-> 28800, continuousDrivingMinutes |-> 0,
              totalShiftDrivingMinutes |-> 0],
   currentAssignments |-> <<>>,
   load |-> [weightKg |-> 0, volumeLiters |-> 0, itemCount |-> 0]]

\* AssignmentEngine.updateState
UpdateState(newOrders, newRiders) ==
  /\ Len(updates) < MaxUpdates
  /\ updates' = Append(updates, calls)
  /\ orders' = newOrders
  /\ riders' = newRiders
  /\ riderLocations' = [riderId \in DOMAIN newRiders |-> newRiders[riderId].location]
  /\ UNCHANGED <<assignments, surgeState, cycleCount, cycleHistory, calls, lastCall,
                 config, reassignmentCounts, lastReassignmentTime, clock, recorded, answer,
                 solverInput, solverResult, etaCache, riderModelCache>>

\* updateState with the first snapshot of a run.
LoadSnapshot ==
  /\ DOMAIN orders = {} /\ DOMAIN riders = {}
  /\ \E orderProfile \in [OrderIds -> OrderProfiles],
        riderProfile \in [RiderIds -> RiderProfiles] :
       UpdateState([orderId \in OrderIds |-> OrderOf(orderId, orderProfile[orderId])],
                   [riderId \in RiderIds |-> RiderOf(riderId, riderProfile[riderId])])

\* updateState with the maps handed in before: the Map objects the engine
\* holds, whose Order and Rider objects the cycles have written to.
UpdateStateAgain ==
  /\ DOMAIN orders # {}
  /\ UpdateState(orders, riders)

\* The caller sets a rider of the map offline (rider.status = 'offline').
RiderGoesOffline(riderId) ==
  /\ riderId \in DOMAIN riders
  /\ riders[riderId].status = "active"
  /\ Cardinality({other \in DOMAIN riders : riders[other].status = "offline"})
       < MaxOffline
  /\ riders' = [riders EXCEPT ![riderId].status = "offline"]
  /\ UNCHANGED <<orders, riderLocations, assignments, surgeState, cycleCount,
                 cycleHistory, calls, lastCall, updates, config, reassignmentCounts,
                 lastReassignmentTime, clock, recorded, answer, solverInput,
                 solverResult, etaCache, riderModelCache>>

\* ------------------------------------------------ the solvers, on their own

MaxDim == 3
FiniteCosts == {40, 50}
NotSolved == [assignments |-> <<>>, totalCost |-> 0, algorithm |-> "none"]
EmptyMatrix == [orders |-> <<>>, riders |-> <<>>, costMatrix |-> <<>>]

MatrixOf(n, m, costs) ==
  [orders |-> [i \in 1..n |-> i], riders |-> [j \in 1..m |-> j],
   costMatrix |-> costs]

\* The matrix of the test 'Hungarian optimizer should find valid assignment'.
HungarianTestMatrix ==
  MatrixOf(3, 3, << <<50, 80, 70>>, <<60, 40, 50>>, <<90, 30, 60>> >>)

\* solverInput is an n x m matrix over a set of entries.
IsMatrixOver(n, m, entries) ==
  \E c \in [1..n -> [1..m -> entries]] : solverInput = MatrixOf(n, m, c)

ReassignIdle ==
  /\ reassignmentCounts = EmptyMap
  /\ lastReassignmentTime = EmptyMap
  /\ clock = 0
  /\ recorded = <<>>
  /\ answer = [op |-> "none"]

reassignVars == <<reassignmentCounts, lastReassignmentTime, clock, recorded, answer>>
solverVars == <<solverInput, solverResult>>

SolveHungarian ==
  /\ solverResult' = HungarianOptimize(solverInput)
  /\ UNCHANGED <<solverInput, reassignVars, engineVars>>

SolveAuction ==
  /\ solverResult' = AuctionOptimize(solverInput)
  /\ UNCHANGED <<solverInput, reassignVars, engineVars>>

SolveGreedy ==
  /\ solverResult' = GreedyOptimize(solverInput)
  /\ UNCHANGED <<solverInput, reassignVars, engineVars>>

\* Square matrices of real costs, solved by the exact solver.
InitSquare ==
  /\ \/ \E n \in 1..MaxDim : IsMatrixOver(n, n, FiniteCosts)
     \/ solverInput = HungarianTestMatrix
  /\ solverResult = NotSolved
  /\ ReassignIdle
  /\ EngineConstructed

SpecSquare == InitSquare /\ [][SolveHungarian]_vars

\* Matrices of every shape, sentinel entries included, solved by each solver.
InitSolve ==
  /\ \/ \E n, m \in 1..MaxDim : IsMatrixOver(n, m, FiniteCosts \cup {Sentinel})
     \/ solverInput = HungarianTestMatrix
  /\ solverResult = NotSolved
  /\ ReassignIdle
  /\ EngineConstructed

NextSolve == SolveHungarian \/ SolveAuction \/ SolveGreedy

SpecSolve == InitSolve /\ [][NextSolve]_vars

\* The matrix entry of a returned pair (ids are the indices in these
\* specifications).
PairCost(pair) == solverInput.costMatrix[pair[1]][pair[2]]

RECURSIVE SumPairCosts(_, _)
SumPairCosts(pairs, k) ==
  IF k > Len(pairs) THEN 0 ELSE PairCost(pairs[k]) + SumPairCosts(pairs, k + 1)

Bijections(n) ==
  {f \in [1..n -> 1..n] : \A i, j \in 1..n : i # j => f[i] # f[j]}

RECURSIVE PermutationCost(_, _)
PermutationCost(f, i) ==
  IF i > Len(solverInput.costMatrix) THEN 0
  ELSE solverInput.costMatrix[i][f[i]] + PermutationCost(f, i + 1)

\* C9: on an n x n matrix of entries below the sentinel the Hungarian
\* solver returns n pairs that form a bijection between orders and riders,
\* totalCost is the sum of the entries of the returned pairs and is the
\* minimum over all n! permutations (130, i.e. 1.3, for the test matrix).
C9_HungarianOptimalOnSquare ==
  solverResult.algorithm = "hungarian" =>
    LET n == NumRows(solverInput)
        pairs == solverResult.assignments
    IN /\ Len(pairs) = n
       /\ {pairs[k][1] : k \in 1..Len(pairs)} = 1..n
       /\ {pairs[k][2] : k \in 1..Len(pairs)} = 1..n
       /\ solverResult.totalCost = SumPairCosts(pairs, 1)
       /\ \A f \in Bijections(n) :
            solverResult.totalCost <= PermutationCost(f, 1)
       /\ solverInput = HungarianTestMatrix => solverResult.totalCost = 130

\* C9, reached: the test matrix solved, 0->0, 1->2, 2->1 at cost 1.3.
C9_Witness ==
  /\ solverInput = HungarianTestMatrix
  /\ solverResult.algorithm = "hungarian"
  /\ solverResult.assignments = << <<1, 1>>, <<2, 3>>, <<3, 2>> >>
  /\ solverResult.totalCost = 130

\* C10: whatever the matrix, each solver returns only pairs whose matrix
\* entry is strictly below the sentinel.
C10_SolversReturnBelowSentinel ==
  \A k \in 1..Len(solverResult.assignments) :
    PairCost(solverResult.assignments[k]) < Sentinel

\* A step that runs the greedy solver on the matrix the Hungarian solver
\* has just solved.
GreedyAfterHungarian ==
  /\ solverResult.algorithm = "hungarian"
  /\ solverResult'.algorithm = "greedy"
  /\ solverInput' = solverInput

Thresholds == {0, 4, 10000, 60000}

\* Matrices around the auction bound (50000, 50001 and 50176 entries).
\* The dispatcher reads only the lengths of orders and riders; the costs
\* of such a matrix are not enumerated.
LargeShapes == {<<200, 250>>, <<21, 2381>>, <<224, 224>>}

WithThreshold(matrix, threshold) ==
  [orders |-> matrix.orders, riders |-> matrix.riders,
   costMatrix |-> matrix.costMatrix, hungarianThreshold |-> threshold]

InitAdaptive ==
  /\ \E threshold \in Thresholds :
       \/ \E n, m \in 1..MaxDim :
            \E c \in [1..n -> [1..m -> FiniteCosts]] :
              solverInput = WithThreshold(MatrixOf(n, m, c), threshold)
       \/ \E shape \in LargeShapes :
            solverInput = WithThreshold(MatrixOf(shape[1], shape[2], <<>>), threshold)
  /\ solverResult = NotSolved
  /\ ReassignIdle
  /\ EngineConstructed

\* AdaptiveOptimizer.optimize(matrix, hungarianThreshold)
SolveAdaptive ==
  /\ solverInput.costMatrix # <<>>
  /\ solverResult' = AdaptiveOptimize(solverInput, solverInput.hungarianThreshold)
  /\ UNCHANGED <<solverInput, reassignVars, engineVars>>

\* AdaptiveOptimizer.optimize on a matrix beyond the bounds of the solvers'
\* model: of the call only the solver taken is recorded.
SelectSolver ==
  /\ solverInput.costMatrix = <<>>
  /\ solverResult' =
       [NotSolved EXCEPT !.algorithm =
          AdaptiveChoice(NumRows(solverInput) * NumCols(solverInput),
                         solverInput.hungarianThreshold)]
  /\ UNCHANGED <<solverInput, reassignVars, engineVars>>

NextAdaptive == SolveAdaptive \/ SelectSolver

SpecAdaptive == InitAdaptive /\ [][NextAdaptive]_vars

MaxClock == 30
MaxRecords == 4
TickSteps == {15}

\* The times of the recordReassignment(orderId) calls made so far.
RecordedTimes(orderId) ==
  SelectSeq(recorded, LAMBDA call : call.orderId = orderId)

\* The caller asks canReassign(orderId).
CallCanReassign(orderId) ==
  /\ answer' = [op |-> "canReassign", orderId |-> orderId,
                value |-> canReassign(orderId)]
  /\ UNCHANGED <<reassignmentCounts, lastReassignmentTime, clock, recorded,
                 solverVars, engineVars>>

\* The caller calls recordReassignment(orderId).
CallRecordReassignment(orderId) ==
  /\ Len(recorded) < MaxRecords
  /\ reassignmentCounts' = recordReassignmentCount(reassignmentCounts, orderId)
  /\ lastReassignmentTime' =
       recordReassignmentTime(lastReassignmentTime, clock, orderId)
  /\ recorded' = Append(recorded, [orderId |-> orderId, at |-> clock])
  /\ answer' = [op |-> "recordReassignment", orderId |-> orderId]
  /\ UNCHANGED <<clock, solverVars, engineVars>>

\* Time passes between two calls.
Tick ==
  /\ \E d \in TickSteps : clock + d <= MaxClock /\ clock' = clock + d
  /\ answer' = [op |-> "none"]
  /\ UNCHANGED <<reassignmentCounts, lastReassignmentTime, recorded, solverVars,
                 engineVars>>

InitReassign ==
  /\ solverInput = EmptyMatrix
  /\ solverResult = NotSolved
  /\ ReassignIdle
  /\ EngineConstructed

NextReassign ==
  \/ \E o \in OrderIds : CallCanReassign(o)
  \/ \E o \in OrderIds : CallRecordReassignment(o)
  \/ Tick

SpecReassign == InitReassign /\ [][NextReassign]_vars

\* C7: after any sequence of ReassignmentEngine calls no order's recorded
\* reassignment count exceeds maxReassignmentAttempts.
C7_CountWithinMaxAttempts ==
  \A o \in OrderIds : MapGet(reassignmentCounts, o, 0) <= maxReassignmentAttempts

\* C8: canReassign(o) returns true exactly when fewer than
\* maxReassignmentAttempts recordReassignment(o) calls were made and either
\* none was made or at least 30 seconds have passed since the last one.
C8_CanReassignSemantics ==
  answer.op = "canReassign" =>
    LET times == RecordedTimes(answer.orderId)
    IN answer.value =
         (/\ Len(times) < maxReassignmentAttempts
          /\ (times = <<>> \/ clock - times[Len(times)].at >= 30))

\* C8, reached: canReassign answers false for an order recorded
\* maxReassignmentAttempts times, 30 seconds after the last record.
C8_Witness ==
  /\ answer.op = "canReassign"
  /\ answer.value = FALSE
  /\ Len(RecordedTimes(answer.orderId)) = maxReassignmentAttempts
  /\ clock - recorded[Len(recorded)].at >= 30

\* ------------------------------------------- the surge handler, on its own

MaxPending == 21
MaxSurgeRiders == 3
BatchCapacities == {5, 10}

\* The calls of the test 'should detect surge levels correctly'.
SurgeTestCalls == {<<50, 100, 5>>, <<600, 100, 5>>, <<750, 100, 5>>, <<1000, 100, 5>>}

SurgeCalls ==
  ((0..MaxPending) \X (0..MaxSurgeRiders) \X BatchCapacities) \cup SurgeTestCalls

\* The caller calls detectSurge and keeps the result, as executeCycle does;
\* surgeState.level is then SurgeHandler.currentLevel as well.
CallDetectSurge(pendingOrders, availableRiders, activeBatchCapacity) ==
  /\ surgeState' = detectSurge(pendingOrders, availableRiders, activeBatchCapacity)
  /\ UNCHANGED <<orders, riders, riderLocations, assignments, cycleCount,
                 cycleHistory, calls, lastCall, updates, config, reassignVars,
                 solverVars, etaCache, riderModelCache>>

NextSurge == \E call \in SurgeCalls : CallDetectSurge(call[1], call[2], call[3])

InitSurge ==
  /\ solverInput = EmptyMatrix
  /\ solverResult = NotSolved
  /\ ReassignIdle
  /\ EngineConstructed

SpecSurge == InitSurge /\ [][NextSurge]_vars

\* C13: whatever was returned before, detectSurge(pending, riders, cap)
\* returns the level of ratio = pending / max(riders * cap, 1): normal
\* below softSurgeRatio, soft_surge from softSurgeRatio, hard_surge from
\* hardSurgeRatio, crisis from crisisRatio (a ratio equal to a threshold is
\* in the higher level), with exactly the action tokens of that level.
C13_SurgeLevels ==
  [][\A call \in SurgeCalls :
       CallDetectSurge(call[1], call[2], call[3]) =>
         LET capacity == call[2] * call[3]
             denominator == IF capacity > 1 THEN capacity ELSE 1
             atLeast(ratioTenths) == call[1] * 10 >= ratioTenths * denominator
         IN /\ surgeState'.pendingOrderCount = call[1]
            /\ surgeState'.availableCapacity = capacity
            /\ ~atLeast(softSurgeRatioTenths) =>
                 /\ surgeState'.level = "normal"
                 /\ surgeState'.recommendedActions = <<>>
            /\ atLeast(softSurgeRatioTenths) /\ ~atLeast(hardSurgeRatioTenths) =>
                 /\ surgeState'.level = "soft_surge"
                 /\ surgeState'.recommendedActions =
                      <<"increase_batch_sizes_by_1", "expand_candidate_radius_50pct",
                        "reduce_fairness_weight">>
            /\ atLeast(hardSurgeRatioTenths) /\ ~atLeast(crisisRatioTenths) =>
                 /\ surgeState'.level = "hard_surge"
                 /\ surgeState'.recommendedActions =
                      <<"enable_preposioning", "hold_sla_orders",
                        "increase_batch_sizes", "expand_search_radius">>
            /\ atLeast(crisisRatioTenths) =>
                 /\ surgeState'.level = "crisis"
                 /\ surgeState'.recommendedActions =
                      <<"escalate_sla_windows", "notify_customers",
                        "activate_emergency_protocol",
                        "request_additional_supply">>]_vars

\* C13, reached: 15 pending orders on a capacity of 10, a ratio equal to
\* hardSurgeRatio, give hard_surge.
C13_Witness ==
  /\ surgeState.pendingOrderCount = 15
  /\ surgeState.availableCapacity = 10
  /\ surgeState.level = "hard_surge"

\* C29: the auction solver stops within maxIterations bidding rounds and
\* returns no rider in two pairs, also when two orders bid for one rider
\* and when there are more orders than riders.
C29_AuctionOneToOne ==
  solverResult.algorithm = "auction" =>
    LET pairs == solverResult.assignments
    IN /\ AuctionRun(solverInput).iteration <= maxIterations
       /\ AuctionRun(solverInput).unassigned = <<>>
       /\ \A k, l \in 1..Len(pairs) :
            k # l => pairs[k][1] # pairs[l][1] /\ pairs[k][2] # pairs[l][2]
       /\ \A k \in 1..Len(pairs) :
            /\ pairs[k][1] \in 1..NumRows(solverInput)
            /\ pairs[k][2] \in 1..NumCols(solverInput)

\* C29, reached: three orders and two riders, the first two orders bidding
\* for the first rider and the third for the second; the second order
\* lost its bid.
C29_Witness ==
  /\ solverResult.algorithm = "auction"
  /\ solverInput = MatrixOf(3, 2, << <<40, 50>>, <<40, 50>>, <<50, 40>> >>)
  /\ solverResult.assignments = << <<1, 1>>, <<3, 2>> >>

\* C28: the Hungarian solver returns exactly min(n, m) pairs of an n x m
\* matrix, each an order and a rider of the matrix, with no order and no
\* rider in two pairs.
C28_HungarianOneToOne ==
  solverResult.algorithm = "hungarian" =>
    LET pairs == solverResult.assignments
        n == NumRows(solverInput)
        m == NumCols(solverInput)
    IN /\ Len(pairs) = (IF n <= m THEN n ELSE m)
       /\ \A k \in 1..Len(pairs) : pairs[k][1] \in 1..n /\ pairs[k][2] \in 1..m
       /\ \A k, l \in 1..Len(pairs) :
            k # l => pairs[k][1] # pairs[l][1] /\ pairs[k][2] # pairs[l][2]

\* C28, reached: a 3 x 2 matrix with sentinel entries solved with two
\* pairs.
C28_Witness ==
  /\ solverResult.algorithm = "hungarian"
  /\ NumRows(solverInput) = 3
  /\ NumCols(solverInput) = 2
  /\ solverInput.costMatrix[1] = <<Sentinel, Sentinel>>
  /\ Len(solverResult.assignments) = 2

\* ------------------------------------- the candidate generator, on its own

ColdVan == [type |-> "van", maxWeightKg |-> 50, maxVolumeLiters |-> 200,
            maxItems |-> 10, capabilities |-> {"standard", "cold_chain"}]

\* One order: SLA deadlines just below, at and far above the expansion
\* threshold, a light and a 1000 kg payload, every vehicle requirement.
CandidateOrders ==
  {[OrderOf(1, [status |-> "pending_assignment", weightKg |-> weightKg])
      EXCEPT !.slaDeadline = slaDeadline,
             !.pickup.estimatedPickupWaitMinutes = 1,
             !.delivery.location = 4,
             !.payload.fragile = fragile,
             !.payload.requiresColdChain = requiresColdChain,
             !.payload.vehicleRequirement = vehicleRequirement] :
     slaDeadline \in {1199, 1200, 3600}, weightKg \in {2, 1000},
     fragile \in BOOLEAN, requiresColdChain \in BOOLEAN,
     vehicleRequirement \in {"any", "bike", "car", "van", "refrigerated"}}

\* Riders at 3, 6, 15 and 30 km of the pickup.
CandidateRiderProfiles ==
  {[location |-> location, vehicle |-> vehicle] :
     location \in {30, 60, 150, 300}, vehicle \in {Bike, Van, ColdVan}}

InitCandidates ==
  /\ solverInput = EmptyMatrix
  /\ solverResult = NotSolved
  /\ ReassignIdle
  /\ \E order \in CandidateOrders,
        riderProfile \in [RiderIds -> CandidateRiderProfiles] :
       /\ orders = [orderId \in {1} |-> order]
       /\ riders = [riderId \in RiderIds |-> RiderOf(riderId, riderProfile[riderId])]
       /\ riderLocations = [riderId \in RiderIds |-> riderProfile[riderId].location]
  /\ assignments = EmptyMap
  /\ config = DEFAULT_ENGINE_CONFIG
  /\ surgeState = [level |-> "normal", pendingOrderCount |-> 0,
                   availableCapacity |-> 0, recommendedActions |-> <<>>]
  /\ cycleCount = 0
  /\ cycleHistory = <<>>
  /\ calls = 0
  /\ lastCall = NoCall
  /\ updates = <<>>
  /\ etaCache = EmptyMap
  /\ riderModelCache = EmptyMap

\* The caller calls generateCandidates(order, riders, now); with the
\* result the answer keeps the scan geographicFilter returned inside.
CallGenerateCandidates(orderId) ==
  /\ orderId \in DOMAIN orders
  /\ answer' = [op |-> "generateCandidates", orderId |-> orderId,
                scanned |-> geographicFilter(orders[orderId], riderLocations, clock),
                result |-> generateCandidates(orders[orderId], riders,
                                              riderLocations, clock)]
  /\ UNCHANGED <<reassignmentCounts, lastReassignmentTime, clock, recorded,
                 solverVars, engineVars>>

NextCandidates == \E orderId \in OrderIds : CallGenerateCandidates(orderId)

SpecCandidates == InitCandidates /\ [][NextCandidates]_vars

\* The riders of the location map within radiusKm of the order's pickup,
\* in map order.
RidersWithin(orderId, radiusKm) ==
  SelectSeq(MapKeys(DOMAIN riderLocations),
            LAMBDA riderId :
              haversineDistance(orders[orderId].pickup.location,
                                riderLocations[riderId]) <= radiusKm * 10)

\* The first non-empty scan of the tiers initial, expanded, max.
TieredScan(orderId) ==
  IF RidersWithin(orderId, initialRadiusKm) # <<>>
  THEN RidersWithin(orderId, initialRadiusKm)
  ELSE IF RidersWithin(orderId, expandedRadiusKm) # <<>>
  THEN RidersWithin(orderId, expandedRadiusKm)
  ELSE RidersWithin(orderId, maxRadiusKm)

SlaSecondsRemaining(orderId) == orders[orderId].slaDeadline - clock

CandidateRidersOf(result) ==
  {result.candidateRiderIds[i] : i \in 1..Len(result.candidateRiderIds)}

\* C15: a rider whose vehicle lacks the fragile capability is never a
\* candidate for a fragile order, and a rider lacking cold_chain is never
\* a candidate for an order requiring cold chain, whatever the order's
\* vehicleRequirement.
C15_CapabilitiesRequired ==
  answer.op = "generateCandidates" =>
    \A riderId \in CandidateRidersOf(answer.result) :
      /\ orders[answer.orderId].payload.fragile
           => "fragile" \in riders[riderId].vehicle.capabilities
      /\ orders[answer.orderId].payload.requiresColdChain
           => "cold_chain" \in riders[riderId].vehicle.capabilities

\* C16: the failure reason is no_riders_in_service_radius exactly when no
\* rider lies within the radii scanned (the scan is empty),
\* all_riders_failed_constraints exactly when the scan is non-empty and no
\* scanned rider passes the six checks, and otherwise there is no failure
\* reason and the candidates are the scanned riders passing the checks,
\* at least one.
C16_FailureReasons ==
  answer.op = "generateCandidates" =>
    LET order == orders[answer.orderId]
        passing == {riderId \in DOMAIN riders :
                      /\ \E i \in 1..Len(answer.scanned) : answer.scanned[i] = riderId
                      /\ capacityCheck(order, riders[riderId])
                      /\ vehicleCompatibilityCheck(order, riders[riderId])
                      /\ shiftTimeCheck(order, riders[riderId], clock)
                      /\ fatigueCheck(riders[riderId])
                      /\ slaFeasibilityCheck(order, riders[riderId], clock)
                      /\ riderStatusCheck(riders[riderId])}
        reason == answer.result.failureReason
    IN /\ reason \in {"none", "no_riders_in_service_radius",
                      "all_riders_failed_constraints"}
       /\ answer.result.orderId = order.orderId
       /\ (answer.scanned = <<>>) = (RidersWithin(answer.orderId, maxRadiusKm) = <<>>)
       /\ (reason = "no_riders_in_service_radius") = (answer.scanned = <<>>)
       /\ (reason = "all_riders_failed_constraints")
            = (answer.scanned # <<>> /\ passing = {})
       /\ CandidateRidersOf(answer.result) = passing
       /\ (reason = "none") = (answer.result.candidateRiderIds # <<>>)

\* C16, reached: a 1000 kg order with every rider within 5 km fails with
\* all_riders_failed_constraints.
C16_Witness ==
  /\ answer.op = "generateCandidates"
  /\ orders[answer.orderId].payload.weightKg = 1000
  /\ answer.scanned = <<1, 2, 3>>
  /\ answer.result.candidateRiderIds = <<>>
  /\ answer.result.failureReason = "all_riders_failed_constraints"

MaxEdited == 2

\* { ...defaults, ...overrides }
Spread(defaults, overrides) ==
  [key \in DOMAIN defaults \cup DOMAIN overrides |->
     IF key \in DOMAIN overrides THEN overrides[key] ELSE defaults[key]]

\* The candidateGeneration of the baseConfig handed to the constructor:
\* the default, expanded = initial, a negative radius.
BaseCandidateGeneration ==
  {[initialRadiusKm |-> initialRadiusKm], [expandedRadiusKm |-> initialRadiusKm],
   [initialRadiusKm |-> -5]}

\* new ConfigurationBuilder({ candidateGeneration })
ConstructBuilder(baseCandidateGeneration) ==
  [DEFAULT_ENGINE_CONFIG EXCEPT
     !.candidateGeneration =
        Spread(DEFAULT_CANDIDATE_GENERATION_CONFIG, baseCandidateGeneration)]

WeightValues == {200, 3110, 10000}

\* The arguments of setWeights in the tests and two more.
PartialWeights ==
  {[w1_time |-> 5000, w2_slaRisk |-> 5000], [w1_time |-> 3600, w5_workload |-> -100],
   [w1_time |-> 2000, w2_slaRisk |-> 4500]}

SurgeRatioChoices == {<<12, 15, 20>>, <<15, 15, 20>>, <<20, 15, 12>>}

CycleIntervals == {-30, 30}

EditedWeights(weights) ==
  Cardinality({key \in WeightKeys : weights[key] # DEFAULT_SCORING_WEIGHTS[key]})

BuilderLeaves ==
  UNCHANGED <<orders, riders, riderLocations, assignments, surgeState, cycleCount,
              cycleHistory, calls, lastCall, updates, reassignmentCounts,
              lastReassignmentTime, clock, recorded, solverVars, etaCache,
              riderModelCache>>

\* build() returns this.config itself: what a setter writes afterwards is
\* written to the configuration the caller (and the engine made from it)
\* holds.
Returned(newConfig) ==
  IF answer.op \in {"build", "AssignmentEngine"} /\ ~answer.threw
  THEN [answer EXCEPT !.config = newConfig]
  ELSE answer

\* ConfigurationBuilder.setWeight
setWeight(key, value) ==
  /\ EditedWeights([config.weights EXCEPT ![key] = value]) <= MaxEdited
  /\ config' = [config EXCEPT !.weights[key] = value]
  /\ answer' = Returned(config')
  /\ BuilderLeaves

\* ConfigurationBuilder.setWeights
setWeights(weights) ==
  /\ EditedWeights(Spread(config.weights, weights)) <= MaxEdited
  /\ config' = [config EXCEPT !.weights = Spread(config.weights, weights)]
  /\ answer' = Returned(config')
  /\ BuilderLeaves

\* ConfigurationBuilder.setCycleInterval
setCycleInterval(seconds) ==
  /\ config' = [config EXCEPT !.cycleIntervalSeconds = seconds]
  /\ answer' = Returned(config')
  /\ BuilderLeaves

\* ConfigurationBuilder.setSurgeRatios
setSurgeRatios(softRatio, hardRatio, crisisRatio) ==
  /\ config' = [config EXCEPT !.surge.softSurgeRatio = softRatio,
                              !.surge.hardSurgeRatio = hardRatio,
                              !.surge.crisisRatio = crisisRatio]
  /\ answer' = Returned(config')
  /\ BuilderLeaves

\* ConfigurationBuilder.build
build ==
  /\ \E rounding \in RoundingErrors :
       answer' = buildOutcome(config, weightSum(config.weights, rounding))
  /\ UNCHANGED config
  /\ BuilderLeaves

\* new AssignmentEngine(config), on the configuration build() returned: the
\* constructor stores it and hands its parts to the components.
NewAssignmentEngine ==
  /\ answer.op = "build"
  /\ ~answer.threw
  /\ answer' = [op |-> "AssignmentEngine", threw |-> FALSE, config |-> answer.config]
  /\ UNCHANGED config
  /\ BuilderLeaves

InitBuilder ==
  /\ solverInput = EmptyMatrix
  /\ solverResult = NotSolved
  /\ ReassignIdle
  /\ orders = EmptyMap
  /\ riders = EmptyMap
  /\ riderLocations = EmptyMap
  /\ assignments = EmptyMap
  /\ surgeState = [level |-> "normal", pendingOrderCount |-> 0,
                   availableCapacity |-> 0, recommendedActions |-> <<>>]
  /\ cycleCount = 0
  /\ cycleHistory = <<>>
  /\ calls = 0
  /\ lastCall = NoCall
  /\ updates = <<>>
  /\ etaCache = EmptyMap
  /\ riderModelCache = EmptyMap
  /\ \E baseCandidateGeneration \in BaseCandidateGeneration :
       config = ConstructBuilder(baseCandidateGeneration)

NextBuilder ==
  \/ \E key \in WeightKeys, value \in WeightValues : setWeight(key, value)
  \/ \E weights \in PartialWeights : setWeights(weights)
  \/ \E seconds \in CycleIntervals : setCycleInterval(seconds)
  \/ \E ratios \in SurgeRatioChoices : setSurgeRatios(ratios[1], ratios[2], ratios[3])
  \/ build
  \/ NewAssignmentEngine

SpecBuilder == InitBuilder /\ [][NextBuilder]_vars

\* The six weights sum to 1.0 within the tolerance, whatever the rounding.
SumWithinTolerance(weights) ==
  /\ SumOver(weights, WeightKeys) >= One - weightTolerance - 1
  /\ SumOver(weights, WeightKeys) <= One + weightTolerance + 1

\* A return or a throw of build().
BuildStep == answer'.op = "build" /\ config' = config /\ answer' # answer

\* C19: build() throws 'Scoring weights must sum to 1.0' exactly when the
\* sum of the six weights is more than 0.01 away from 1.0, and otherwise
\* returns the builder's configuration, whose weights sum to 1.0 within
\* 0.01 at that moment.
C19_BuildValidatesWeightSum ==
  [][BuildStep =>
       /\ \E rounding \in RoundingErrors :
            answer'.weightSum = SumOver(config.weights, WeightKeys) + rounding
       /\ answer'.threw = (answer'.weightSum > One + weightTolerance
                            \/ answer'.weightSum < One - weightTolerance)
       /\ IF answer'.threw
          THEN /\ answer'.message = "Scoring weights must sum to 1.0"
               /\ "config" \notin DOMAIN answer'
          ELSE /\ answer'.config = config
               /\ SumWithinTolerance(answer'.config.weights)]_vars

\* C19, reached: build() threw on weights that sum to 1.011.
C19_Witness ==
  /\ answer.op = "build"
  /\ answer.threw
  /\ config.weights = [DEFAULT_SCORING_WEIGHTS EXCEPT !.w1_time = 3110]
  /\ answer.weightSum = 10110

\* C21: a configuration build() returned is not changed by a later call on
\* the builder that produced it, so that its weights keep summing to 1.0
\* within 0.01.
C21_BuiltConfigurationImmutable ==
  [][(/\ answer.op \in {"build", "AssignmentEngine"}
      /\ ~answer.threw
      /\ config' # config)
     => /\ answer'.config = answer.config
        /\ SumWithinTolerance(answer'.config.weights)]_vars

\* A configuration is valid: its surge ratios and its radii are strictly
\* increasing and none of its numbers is negative.
ValidConfiguration(c) ==
  /\ c.surge.softSurgeRatio < c.surge.hardSurgeRatio
  /\ c.surge.hardSurgeRatio < c.surge.crisisRatio
  /\ c.candidateGeneration.initialRadiusKm < c.candidateGeneration.expandedRadiusKm
  /\ c.candidateGeneration.expandedRadiusKm < c.candidateGeneration.maxRadiusKm
  /\ c.cycleIntervalSeconds >= 0
  /\ c.candidateGeneration.initialRadiusKm >= 0
  /\ c.surge.softSurgeRatio >= 0
  /\ \A key \in WeightKeys : c.weights[key] >= 0

\* C20: a configuration whose surge ratios or radii are not strictly
\* increasing, or that holds a negative number, is not returned by build()
\* and no AssignmentEngine is made from it.
C20_InvalidConfigurationRejected ==
  (answer.op \in {"build", "AssignmentEngine"} /\ ~answer.threw)
    => ValidConfiguration(answer.config)

\* ------------------------------------------------------ the engine's runs

Init ==
  /\ solverInput = EmptyMatrix
  /\ solverResult = NotSolved
  /\ ReassignIdle
  /\ EngineConstructed

Next ==
  \/ LoadSnapshot
  \/ ExecuteCycle
  \/ \E riderId \in RiderIds : RiderGoesOffline(riderId)
  \/ Tick

Spec == Init /\ [][Next]_vars

\* The cycle with each solver in turn: the auction and the greedy solver
\* serve matrices of more than hungarianThreshold and auctionThreshold
\* entries, which lie beyond the bounds of a run.
ExecuteCycleOnAnyPath ==
  \E path \in {"hungarian", "auction", "greedy"} : ExecuteCycleOn(path)

NextPaths ==
  \/ LoadSnapshot
  \/ ExecuteCycleOnAnyPath
  \/ \E riderId \in RiderIds : RiderGoesOffline(riderId)
  \/ Tick

SpecPaths == Init /\ [][NextPaths]_vars

\* A fixed snapshot in a fresh engine, and executeCycle invoked again and
\* again.
InitFixed ==
  /\ solverInput = EmptyMatrix
  /\ solverResult = NotSolved
  /\ ReassignIdle
  /\ \E orderProfile \in [OrderIds -> OrderProfiles],
        riderProfile \in [RiderIds -> RiderProfiles] :
       /\ orders = [orderId \in OrderIds |-> OrderOf(orderId, orderProfile[orderId])]
       /\ riders = [riderId \in RiderIds |-> RiderOf(riderId, riderProfile[riderId])]
       /\ riderLocations = [riderId \in RiderIds |-> riderProfile[riderId].location]
  /\ assignments = EmptyMap
  /\ config = DEFAULT_ENGINE_CONFIG
  /\ surgeState = [level |-> "normal", pendingOrderCount |-> 0,
                   availableCapacity |-> 0, recommendedActions |-> <<>>]
  /\ cycleCount = 0
  /\ cycleHistory = <<>>
  /\ calls = 0
  /\ lastCall = NoCall
  /\ updates = <<0>>
  /\ etaCache = EmptyMap
  /\ riderModelCache = EmptyMap

NextFixed == ExecuteCycle \/ Tick

\* The caller's loop: while calls remain, executeCycle is invoked.  Under
\* NextFixed the steps that count a call are the steps of ExecuteCycle,
\* which is enabled whenever calls remain.
CycleInvoked == calls < MaxCalls /\ calls' = calls + 1

SpecFixed == InitFixed /\ [][NextFixed]_vars /\ WF_calls(CycleInvoked)

\* A fixed snapshot of pending orders of 2 kg and 3 kg, each within the
\* capacity of every vehicle, and executeCycle invoked again and again.
InitLoad ==
  /\ solverInput = EmptyMatrix
  /\ solverResult = NotSolved
  /\ ReassignIdle
  /\ \E weightKg \in [OrderIds -> {2, 3}],
        riderProfile \in [RiderIds -> RiderProfiles] :
       /\ orders = [orderId \in OrderIds |->
                      OrderOf(orderId, [status |-> "pending_assignment",
                                        weightKg |-> weightKg[orderId]])]
       /\ riders = [riderId \in RiderIds |-> RiderOf(riderId, riderProfile[riderId])]
       /\ riderLocations = [riderId \in RiderIds |-> riderProfile[riderId].location]
  /\ assignments = EmptyMap
  /\ config = DEFAULT_ENGINE_CONFIG
  /\ surgeState = [level |-> "normal", pendingOrderCount |-> 0,
                   availableCapacity |-> 0, recommendedActions |-> <<>>]
  /\ cycleCount = 0
  /\ cycleHistory = <<>>
  /\ calls = 0
  /\ lastCall = NoCall
  /\ updates = <<0>>
  /\ etaCache = EmptyMap
  /\ riderModelCache = EmptyMap

SpecLoad == InitLoad /\ [][NextFixed]_vars

\* The script updateState(X, Y); executeCycle(); updateState(X, Y);
\* executeCycle() and its interleavings, with time passing between calls
\* and a rider of Y that may be offline.
NextTwice ==
  \/ LoadSnapshot
  \/ UpdateStateAgain
  \/ ExecuteCycle
  \/ \E riderId \in RiderIds : RiderGoesOffline(riderId)
  \/ Tick

SpecTwice == Init /\ [][NextTwice]_vars

\* The lastCycle of getMetrics on an empty history.
Undefined == [cycleId |-> -1]

\* AssignmentEngine.getMetrics: cycleCount and lastCycle.
getMetrics ==
  [cycleCount |-> cycleCount,
   lastCycle |-> IF Len(cycleHistory) = 0 THEN Undefined
                 ELSE cycleHistory[Len(cycleHistory)]]

\* ------------------------------------------------------ the cycle's claims

\* A step of executeCycle.
CycleStep == calls' = calls + 1

\* The decisions the last executeCycle returned.
Decisions == lastCall.result.decisions

HasDecision(call, orderId) ==
  \E k \in 1..Len(call.result.decisions) : call.result.decisions[k].orderId = orderId

IsCandidate(call, orderId, riderId) ==
  /\ orderId \in DOMAIN call.candidates
  /\ \E c \in 1..Len(call.candidates[orderId]) : call.candidates[orderId][c] = riderId

Occurrences(seq, x) == Cardinality({i \in 1..Len(seq) : seq[i] = x})

\* C1: every decision of a cycle pairs an order with a rider of that
\* order's candidate list of the cycle (a pair without a score, whose
\* matrix entry is the sentinel, is never a decision).
C1_DecisionsAreCandidates ==
  \A k \in 1..Len(Decisions) :
    IsCandidate(lastCall, Decisions[k].orderId, Decisions[k].riderId)

\* C2: successCount + failureCount is the number of orders pending at the
\* start of the cycle, successCount is the number of decisions and
\* failureCount is not negative.
C2_CountsAddUp ==
  [][CycleStep =>
       /\ lastCall'.result.successCount + lastCall'.result.failureCount
            = Cardinality({o \in DOMAIN orders :
                             orders[o].status = "pending_assignment"})
       /\ lastCall'.result.successCount = Len(lastCall'.result.decisions)
       /\ lastCall'.result.failureCount >= 0]_vars

\* C2, reached: a cycle that assigned one order and failed another.
C2_Witness ==
  /\ calls > 0
  /\ lastCall.result.successCount = 1
  /\ lastCall.result.failureCount = 1

\* C3: a decision (o, r) takes o from pending_assignment to assigned, sets
\* assignedRiderId to r, adds one to assignmentAttempts and appends o once
\* to r.currentAssignments, at the index the decision gives as
\* sequenceIndex, which is the length of the list just before the append.
C3_DecisionEffects ==
  [][CycleStep =>
       \A k \in 1..Len(lastCall'.result.decisions) :
         LET d == lastCall'.result.decisions[k]
             earlier == Cardinality({e \in 1..(k - 1) :
                          lastCall'.result.decisions[e].riderId = d.riderId})
         IN /\ orders[d.orderId].status = "pending_assignment"
            /\ orders'[d.orderId].status = "assigned"
            /\ orders'[d.orderId].assignedRiderId = d.riderId
            /\ orders'[d.orderId].assignmentAttempts
                 = orders[d.orderId].assignmentAttempts + 1
            /\ Occurrences(riders'[d.riderId].currentAssignments, d.orderId)
                 = Occurrences(riders[d.riderId].currentAssignments, d.orderId) + 1
            /\ d.sequenceIndex = Len(riders[d.riderId].currentAssignments) + earlier
            /\ d.sequenceIndex < Len(riders'[d.riderId].currentAssignments)
            /\ riders'[d.riderId].currentAssignments[d.sequenceIndex + 1] = d.orderId]_vars

\* C3, reached: one rider received two orders in the same cycle, at the
\* indices 0 and 1.
C3_Witness ==
  /\ Len(Decisions) = 2
  /\ Decisions[1].riderId = Decisions[2].riderId
  /\ Decisions[1].sequenceIndex = 0
  /\ Decisions[2].sequenceIndex = 1
  /\ riders[Decisions[1].riderId].currentAssignments
       = <<Decisions[1].orderId, Decisions[2].orderId>>

\* C4: a cycle changes an order's status only from pending_assignment to
\* assigned (an order pending at the start that received a decision) or
\* from assigned to pending_assignment; an order that is picked_up,
\* delivered or cancelled receives no decision and is left as it is.
C4_StatusTransitions ==
  [][CycleStep =>
       \A o \in DOMAIN orders :
         /\ orders'[o].status # orders[o].status =>
              \/ /\ orders[o].status = "pending_assignment"
                 /\ orders'[o].status = "assigned"
                 /\ HasDecision(lastCall', o)
              \/ /\ orders[o].status = "assigned"
                 /\ orders'[o].status = "pending_assignment"
         /\ orders[o].status \in {"picked_up", "delivered", "cancelled"} =>
              /\ ~HasDecision(lastCall', o)
              /\ orders'[o] = orders[o]]_vars

\* C4, reached: a cycle assigned one order next to an order already picked
\* up.
C4_Witness ==
  /\ Len(Decisions) = 1
  /\ \E o \in DOMAIN orders : orders[o].status = "picked_up"
  /\ orders[Decisions[1].orderId].status = "assigned"

\* The guards of a reassignment of order o away from its rider.
ReassignmentPermitted(o) ==
  /\ canReassign(o)
  /\ orders[o].assignedRiderId \in DOMAIN riders =>
       ~isReassignmentSuppressed(riders[orders[o].assignedRiderId],
                                 orders[o].pickup.location)

\* C5: an order assigned by an earlier cycle whose rider is offline (or
\* gone from the rider map) is, by the next cycle the guards permit, set
\* back to pending_assignment with assignedRiderId cleared and one
\* reassignment recorded, also when no order is pending in that cycle.
C5_OfflineRiderReassigned ==
  [][CycleStep =>
       \A o \in DOMAIN orders :
         (/\ orders[o].status = "assigned"
          /\ \/ orders[o].assignedRiderId \notin DOMAIN riders
             \/ riders[orders[o].assignedRiderId].status = "offline"
          /\ ReassignmentPermitted(o))
         => /\ orders'[o].status = "pending_assignment"
            /\ orders'[o].assignedRiderId = NoRider
            /\ MapGet(reassignmentCounts', o, 0)
                 = MapGet(reassignmentCounts, o, 0) + 1]_vars

\* The order has a candidate rider now.
HasCandidates(o) ==
  Len(generateCandidates(orders[o], riders, riderLocations, clock).candidateRiderIds) > 0

\* C6: with a fixed snapshot and executeCycle invoked again and again, an
\* order a cycle leaves without a decision stays pending_assignment and
\* has its candidates generated by the next cycle, and a pending order
\* that keeps having a candidate rider is eventually assigned.
C6_RetriedUntilAssigned ==
  /\ [][CycleStep =>
          \A o \in DOMAIN orders :
            orders[o].status = "pending_assignment" =>
              /\ o \in DOMAIN lastCall'.candidates
              /\ ~HasDecision(lastCall', o) =>
                   orders'[o].status = "pending_assignment"]_vars
  /\ \A o \in OrderIds :
       (orders[o].status = "pending_assignment" /\ HasCandidates(o))
         ~> (orders[o].status = "assigned" \/ ~HasCandidates(o))

\* C6, reached: an order left pending by the first cycle is assigned by the
\* second.
C6_Witness ==
  /\ Len(cycleHistory) = 2
  /\ cycleHistory[1].failureCount = 1
  /\ \E o \in OrderIds :
       /\ ~\E k \in 1..Len(cycleHistory[1].decisions) :
              cycleHistory[1].decisions[k].orderId = o
       /\ HasDecision(lastCall, o)
       /\ orders[o].status = "assigned"

\* C17: after k calls of executeCycle, getMetrics().cycleCount is k, the
\* cycle history holds k results and getMetrics().lastCycle is the result
\* the most recent call returned, also when a cycle found no pending
\* order.
C17_EveryCycleCounted ==
  /\ getMetrics.cycleCount = calls
  /\ Len(cycleHistory) = calls
  /\ calls > 0 => getMetrics.lastCycle = lastCall.result

\* The second executeCycle of the script updateState(X, Y); executeCycle();
\* updateState(X, Y); executeCycle().
SecondCycleOfScript == CycleStep /\ calls = 1 /\ updates = <<0, 1>>

\* C18 as stated: the second executeCycle of the script assigns no order.
C18_SecondCycleAssignsNothing ==
  [][SecondCycleOfScript => lastCall'.result.decisions = <<>>]_vars

\* C18, amended: the second executeCycle of the script decides only for
\* orders that are pending_assignment when it starts, none of which the
\* first cycle decided for; when no order is pending then, it assigns
\* nothing.
C18_SecondCycleAssignsPendingOnly ==
  [][SecondCycleOfScript =>
       /\ \A k \in 1..Len(lastCall'.result.decisions) :
            LET o == lastCall'.result.decisions[k].orderId
            IN /\ orders[o].status = "pending_assignment"
               /\ ~HasDecision(lastCall, o)
       /\ (\A o \in DOMAIN orders : orders[o].status # "pending_assignment")
            => lastCall'.result.decisions = <<>>]_vars

\* C18, reached: the script has run; its first cycle assigned one of two
\* pending orders and its second cycle the other.
C18_Witness ==
  /\ updates = <<0, 1>>
  /\ calls = 2
  /\ Len(cycleHistory) = 2
  /\ Len(cycleHistory[1].decisions) = 1
  /\ Len(cycleHistory[2].decisions) = 1
  /\ cycleHistory[1].decisions[1].orderId # cycleHistory[2].decisions[1].orderId
  /\ \A o \in DOMAIN orders : orders[o].status = "assigned"

\* The summed payload field of the orders of a rider's currentAssignments.
RECURSIVE AssignedPayload(_, _, _)
AssignedPayload(riderId, field, k) ==
  IF k > Len(riders[riderId].currentAssignments) THEN 0
  ELSE orders[riders[riderId].currentAssignments[k]].payload[field]
       + AssignedPayload(riderId, field, k + 1)

\* C26: for every rider, the load plus the summed payload of the orders
\* appended to currentAssignments stays within the vehicle's maxWeightKg,
\* maxVolumeLiters and maxItems.
C26_LoadWithinCapacity ==
  \A riderId \in DOMAIN riders :
    /\ riders[riderId].load.weightKg + AssignedPayload(riderId, "weightKg", 1)
         <= riders[riderId].vehicle.maxWeightKg
    /\ riders[riderId].load.volumeLiters + AssignedPayload(riderId, "volumeLiters", 1)
         <= riders[riderId].vehicle.maxVolumeLiters
    /\ riders[riderId].load.itemCount + AssignedPayload(riderId, "itemCount", 1)
         <= riders[riderId].vehicle.maxItems

TriggerPriorities == {"normal", "high", "critical"}
TriggerDeadlines == {1215, 3600}
\* Rider r of the snapshot stands 2.5 km beyond rider r - 1.
TriggerRiderLocation(riderId) == (riderId - 1) * 25

TriggerOrder(orderId, priority, slaDeadline, riderId) ==
  [OrderOf(orderId, [status |-> IF riderId = NoRider THEN "pending_assignment"
                                ELSE "assigned",
                     weightKg |-> 2])
     EXCEPT !.priority = priority, !.slaDeadline = slaDeadline,
            !.assignedRiderId = riderId]

TriggerRider(riderId, assignedTo) ==
  [RiderOf(riderId, [location |-> TriggerRiderLocation(riderId), vehicle |-> Van])
     EXCEPT !.currentAssignments =
       SelectSeq(MapKeys(OrderIds), LAMBDA orderId : assignedTo[orderId] = riderId)]

AssignmentOf(orderId, riderId) ==
  [orderId |-> orderId, riderId |-> riderId, assignedAt |-> 0,
   estimatedDeliveryAt |-> 1800]

InitTriggers ==
  /\ solverInput = EmptyMatrix
  /\ solverResult = NotSolved
  /\ ReassignIdle
  /\ surgeState = [level |-> "normal", pendingOrderCount |-> 0,
                   availableCapacity |-> 0, recommendedActions |-> <<>>]
  /\ cycleCount = 0
  /\ cycleHistory = <<>>
  /\ calls = 0
  /\ lastCall = NoCall
  /\ updates = <<>>
  /\ etaCache = EmptyMap
  /\ riderModelCache = EmptyMap
  /\ config = DEFAULT_ENGINE_CONFIG
  /\ \E priorities \in [OrderIds -> TriggerPriorities] :
     \E deadlines \in [OrderIds -> TriggerDeadlines] :
     \E assignedTo \in [OrderIds -> RiderIds \cup {NoRider}] :
       /\ orders = [orderId \in OrderIds |->
            TriggerOrder(orderId, priorities[orderId], deadlines[orderId],
                         assignedTo[orderId])]
       /\ riders = [riderId \in RiderIds |-> TriggerRider(riderId, assignedTo)]
       /\ riderLocations = [riderId \in RiderIds |-> TriggerRiderLocation(riderId)]
       /\ assignments = [orderId \in {o \in OrderIds : assignedTo[o] # NoRider} |->
            AssignmentOf(orderId, assignedTo[orderId])]

\* The caller asks detectTriggers(orders, riders, assignments, now).
CallDetectTriggers ==
  /\ answer' = [op |-> "detectTriggers", now |-> clock,
                triggers |-> detectTriggers(orders, riders, assignments, clock)]
  /\ UNCHANGED <<reassignmentCounts, lastReassignmentTime, clock, recorded,
                 solverVars, engineVars>>

NextTriggers ==
  \/ CallDetectTriggers
  \/ Tick

SpecTriggers == InitTriggers /\ [][NextTriggers]_vars

\* The order is critical, or high without an assignment, and its deadline is
\* within triggerHighPrioritySlaCutoffMinutes of now.
QualifyingPriorityOrder(p, now) ==
  /\ \/ orders[p].priority = "critical"
     \/ orders[p].priority = "high" /\ p \notin DOMAIN assignments
  /\ orders[p].slaDeadline <= now + triggerHighPrioritySlaCutoffMinutes * 60

\* The normal orders with a live assignment to a rider within 3 km of the
\* pickup of a qualifying priority order.
NormalOrdersToMakeRoom(now) ==
  {o \in DOMAIN assignments :
     /\ orders[o].priority = "normal"
     /\ \E p \in DOMAIN orders :
          /\ QualifyingPriorityOrder(p, now)
          /\ haversineDistance(riders[assignments[o].riderId].location,
                               orders[p].pickup.location) < 3 * 10}

\* C25: the affectedOrderIds of a high_priority_arrival trigger returned by
\* detectTriggers are exactly the normal orders with a live assignment to a
\* rider within 3 km of the pickup of a qualifying priority order.
C25_AffectedAreNormalAssigned ==
  answer.op = "detectTriggers" =>
    \A k \in 1..Len(answer.triggers) :
      answer.triggers[k].type = "high_priority_arrival" =>
        {answer.triggers[k].affectedOrderIds[i] :
           i \in 1..Len(answer.triggers[k].affectedOrderIds)}
          = NormalOrdersToMakeRoom(answer.now)

\* ------------------------------------------------------ the batch optimizer

\* DEFAULT_BATCHING_CONFIG
maxBatchSize == [bike |-> 3, car |-> 5, van |-> 8]
twoOptIterationLimit == 100

RECURSIVE SumPayload(_, _, _)
SumPayload(batch, field, k) ==
  IF k > Len(batch) THEN 0
  ELSE batch[k].payload[field] + SumPayload(batch, field, k + 1)

\* BatchOptimizer.validateBatchConstraints
validateBatchConstraints(rider, batch) ==
  IF Len(batch) > maxBatchSize[rider.vehicle.type] THEN FALSE
  ELSE /\ SumPayload(batch, "weightKg", 1) <= rider.vehicle.maxWeightKg
       /\ SumPayload(batch, "volumeLiters", 1) <= rider.vehicle.maxVolumeLiters
       /\ SumPayload(batch, "itemCount", 1) <= rider.vehicle.maxItems

\* The loop of findNearestOrder: the first index of the least distance.
RECURSIVE NearestScan(_, _, _, _, _)
NearestScan(location, batch, i, minDistance, nearestIdx) ==
  IF i > Len(batch) THEN nearestIdx
  ELSE IF haversineDistance(location, batch[i].pickup.location) < minDistance
  THEN NearestScan(location, batch, i + 1,
                   haversineDistance(location, batch[i].pickup.location), i)
  ELSE NearestScan(location, batch, i + 1, minDistance, nearestIdx)

findNearestOrder(location, batch) == NearestScan(location, batch, 1, Infinity, 1)

\* BatchOptimizer.calculateInsertionCost: route holds the indices of its
\* orders in allOrders, insertPosition counts from 0.
calculateInsertionCost(route, order, insertPosition, allOrders) ==
  IF Len(route) = 0 THEN 0
  ELSE IF insertPosition = 0
  THEN haversineDistance(order.pickup.location, order.delivery.location)
  ELSE haversineDistance(allOrders[route[insertPosition]].delivery.location,
                         order.pickup.location)
       + haversineDistance(order.pickup.location, order.delivery.location)
       - (IF insertPosition < Len(route)
          THEN haversineDistance(allOrders[route[insertPosition]].delivery.location,
                                 allOrders[route[insertPosition + 1]].pickup.location)
          ELSE 0)

NoInsertion == [cost |-> Infinity, orderIdx |-> 0, position |-> 0]

\* The two loops over the remaining orders and the insertion positions: the
\* first pair of the least incremental cost.
RECURSIVE InsertionScan(_, _, _, _, _, _)
InsertionScan(route, remaining, r, insertPos, allOrders, best) ==
  IF r > Len(remaining) THEN best
  ELSE IF insertPos > Len(route)
  THEN InsertionScan(route, remaining, r + 1, 0, allOrders, best)
  ELSE InsertionScan(route, remaining, r, insertPos + 1, allOrders,
         IF calculateInsertionCost(route, allOrders[remaining[r]], insertPos, allOrders)
              < best.cost
         THEN [cost |-> calculateInsertionCost(route, allOrders[remaining[r]],
                                               insertPos, allOrders),
               orderIdx |-> remaining[r], position |-> insertPos]
         ELSE best)

BestInsertion(route, remaining, allOrders) ==
  InsertionScan(route, remaining, 1, 0, allOrders, NoInsertion)

\* route.orders.splice(position, 0, orderIdx)
SpliceIn(route, position, orderIdx) ==
  SubSeq(route, 1, position) \o <<orderIdx>> \o SubSeq(route, position + 1, Len(route))

\* The while loop of cheapestInsertionConstruction.
RECURSIVE InsertRemaining(_, _, _)
InsertRemaining(route, remaining, allOrders) ==
  IF Len(remaining) = 0 THEN route
  ELSE IF BestInsertion(route, remaining, allOrders).orderIdx = 0 THEN route
  ELSE InsertRemaining(
         SpliceIn(route, BestInsertion(route, remaining, allOrders).position,
                  BestInsertion(route, remaining, allOrders).orderIdx),
         SelectSeq(remaining,
           LAMBDA idx : idx # BestInsertion(route, remaining, allOrders).orderIdx),
         allOrders)

\* BatchOptimizer.cheapestInsertionConstruction: the indices of the orders
\* in route order.
cheapestInsertionConstruction(rider, batch) ==
  InsertRemaining(<<findNearestOrder(rider.location, batch)>>,
                  SelectSeq([i \in 1..Len(batch) |-> i],
                            LAMBDA idx : idx # findNearestOrder(rider.location, batch)),
                  batch)

\* One pass of the while loop of twoOptImprovement: the first pair (i, j)
\* with j >= i + 2 is (0, 2), taken whatever the distances, and reverses
\* the second and third order.
TwoOptPass(route) ==
  IF Len(route) >= 3
  THEN <<route[1], route[3], route[2]>> \o SubSeq(route, 4, Len(route))
  ELSE route

\* BatchOptimizer.twoOptImprovement
RECURSIVE TwoOptLoop(_, _, _)
TwoOptLoop(route, improved, iteration) ==
  IF ~(improved /\ iteration < twoOptIterationLimit) THEN route
  ELSE TwoOptLoop(TwoOptPass(route), Len(route) >= 3, iteration + 1)

twoOptImprovement(route) == TwoOptLoop(route, TRUE, 0)

\* BatchOptimizer.estimateRouteDuration
RECURSIVE estimateRouteDuration(_, _)
estimateRouteDuration(batch, i) ==
  IF i > Len(batch) THEN 0
  ELSE batch[i].pickup.estimatedPickupWaitMinutes + 10 + 3
       + (IF i < Len(batch) THEN 10 ELSE 0)
       + estimateRouteDuration(batch, i + 1)

\* BatchOptimizer.buildStopSequence: a pickup and a delivery stop per order.
buildStopSequence(sequence) ==
  [k \in 1..(2 * Len(sequence)) |->
     [type |-> IF k % 2 = 1 THEN "pickup" ELSE "delivery",
      orderId |-> sequence[(k + 1) \div 2], sequenceIndex |-> k - 1]]

\* The route built from the batch; the duration is that of the route after
\* construction, the stops all lie at (0, 0).
BatchRouteOf(rider, batch) ==
  [stops |-> buildStopSequence(
       [k \in 1..Len(batch) |->
          batch[twoOptImprovement(cheapestInsertionConstruction(rider, batch))[k]].orderId]),
   totalDistance |-> 0,
   totalDurationMinutes |->
     estimateRouteDuration(
       [k \in 1..Len(batch) |-> batch[cheapestInsertionConstruction(rider, batch)[k]]], 1),
   ordersSequence |->
     [k \in 1..Len(batch) |->
        batch[twoOptImprovement(cheapestInsertionConstruction(rider, batch))[k]].orderId],
   threw |-> FALSE]

\* BatchOptimizer.optimizeBatch: the block taken when validateBatchConstraints
\* fails is empty.
optimizeBatch(rider, batch) ==
  IF Len(batch) = 0
  THEN [stops |-> <<>>, totalDistance |-> 0, totalDurationMinutes |-> 0,
        ordersSequence |-> <<>>, threw |-> FALSE]
  ELSE IF ~validateBatchConstraints(rider, batch) THEN BatchRouteOf(rider, batch)
  ELSE BatchRouteOf(rider, batch)

\* The batches handed to optimizeBatch: up to MaxBatch orders, each picked
\* up at the rider's place or 2 km away and weighing 1 or 3 kg, for a bike
\* or a van.
MaxBatch == 4
BatchPickups == {0, 20}
BatchWeights == {1, 3}

BatchOrder(orderId, pickupLocation, weightKg) ==
  [orderId |-> orderId, status |-> "pending_assignment", slaDeadline |-> 3600,
   pickup |-> [location |-> pickupLocation, estimatedPickupWaitMinutes |-> 5],
   delivery |-> [location |-> 20],
   payload |-> [weightKg |-> weightKg, volumeLiters |-> 5, itemCount |-> 1,
                requiresColdChain |-> FALSE, fragile |-> FALSE,
                vehicleRequirement |-> "any"],
   priority |-> "normal", assignmentAttempts |-> 0, assignedRiderId |-> NoRider]

Batches ==
  UNION {[1..n -> BatchPickups \X BatchWeights] : n \in 0..MaxBatch}

BatchOf(choice) ==
  [k \in 1..Len(choice) |-> BatchOrder(k, choice[k][1], choice[k][2])]

\* The rider and the batch of the call are riders[1] and orders.
InitBatch ==
  /\ solverInput = EmptyMatrix
  /\ solverResult = NotSolved
  /\ ReassignIdle
  /\ riderLocations = EmptyMap
  /\ assignments = EmptyMap
  /\ config = DEFAULT_ENGINE_CONFIG
  /\ surgeState = [level |-> "normal", pendingOrderCount |-> 0,
                   availableCapacity |-> 0, recommendedActions |-> <<>>]
  /\ cycleCount = 0
  /\ cycleHistory = <<>>
  /\ calls = 0
  /\ lastCall = NoCall
  /\ updates = <<>>
  /\ etaCache = EmptyMap
  /\ riderModelCache = EmptyMap
  /\ \E vehicle \in {Bike, Van} :
       riders = [riderId \in {1} |-> RiderOf(1, [location |-> 0, vehicle |-> vehicle])]
  /\ \E choice \in Batches : orders = BatchOf(choice)

\* The caller asks optimizeBatch(rider, orders).
CallOptimizeBatch ==
  /\ answer' = [op |-> "optimizeBatch", route |-> optimizeBatch(riders[1], orders)]
  /\ UNCHANGED <<reassignmentCounts, lastReassignmentTime, clock, recorded,
                 solverVars, engineVars>>

NextBatch == CallOptimizeBatch

SpecBatch == InitBatch /\ [][NextBatch]_vars

\* The orders of the batch named by the route's ordersSequence.
RouteOrders ==
  [k \in 1..Len(answer.route.ordersSequence) |->
     orders[answer.route.ordersSequence[k]]]

\* C22: optimizeBatch rejects a batch of more than maxBatchSize[vehicle.type]
\* orders or of a summed weight, volume or item count beyond the vehicle's
\* capacity, so a returned route has at most maxBatchSize[vehicle.type]
\* orders and a payload within capacity.
C22_ReturnedRouteWithinLimits ==
  answer.op = "optimizeBatch" =>
    /\ ~validateBatchConstraints(riders[1], orders) /\ Len(orders) > 0
         => answer.route.threw
    /\ ~answer.route.threw =>
         /\ Len(answer.route.ordersSequence) <= maxBatchSize[riders[1].vehicle.type]
         /\ SumPayload(RouteOrders, "weightKg", 1) <= riders[1].vehicle.maxWeightKg
         /\ SumPayload(RouteOrders, "volumeLiters", 1) <= riders[1].vehicle.maxVolumeLiters
         /\ SumPayload(RouteOrders, "itemCount", 1) <= riders[1].vehicle.maxItems

\* ------------------------------------------------------------ the ETA model

\* The ETA model's locations lie on one meridian and are given in units of
\* 0.00001 degree, of which 90 make 100 m; speed multipliers and confidences
\* are in hundredths, traffic multipliers in tenths.
etaCacheMinutes == 5

\* Number.toFixed(4) of a coordinate: the nearest multiple of 0.0001 degree.
toFixed4(coordinate) == (coordinate + 5) \div 10

\* ETAModel.generateCacheKey
generateCacheKey(origin, destination, departureTime) ==
  <<toFixed4(origin), toFixed4(destination), departureTime \div 60>>

\* Date.getHours of a time of the run.
getHours(time) == (time \div 3600) % 24

\* ETAModel.getTrafficMultiplier
getTrafficMultiplier(hour) ==
  IF (hour >= 8 /\ hour <= 10) \/ (hour >= 17 /\ hour <= 19) THEN 15
  ELSE IF hour >= 22 \/ hour <= 6 THEN 11
  ELSE 10

\* 0.8 + Math.random() * 0.4 and 0.75 + Math.random() * 0.2: two of the
\* values the generator can give.
SpeedMultipliers == {80, 119}
Confidences == {75, 94}

\* The entry is served when its age is equal to etaCacheMinutes too.
cacheServesAtLimit(entry, now) == now - entry.timestamp <= etaCacheMinutes * 60

\* The test of estimateETA on the entry found under the key.
cacheServes(entry, now) == now - entry.timestamp < etaCacheMinutes * 60

\* The estimate computed by estimateETA when no entry is served; no
\* buildingType is given, so the service time is 0.
EstimateOf(origin, destination, departureTime, riderSpeedMultiplier, confidence) ==
  [origin |-> origin, destination |-> destination, departureTime |-> departureTime,
   estimatedDurationMinutes |->
     (2 * estimateTravelTime(origin \div 90, destination \div 90, 25, 10)
        * getTrafficMultiplier(getHours(departureTime)) * riderSpeedMultiplier + 1000)
       \div 2000,
   confidence |-> confidence,
   baseTime |-> estimateTravelTime(origin \div 90, destination \div 90, 25, 10),
   trafficMultiplier |-> getTrafficMultiplier(getHours(departureTime)),
   riderSpeedMultiplier |-> riderSpeedMultiplier,
   serviceTimeMinutes |-> 0]

\* ETAModel.getRiderSpeedMultiplier: the values it can return.
getRiderSpeedMultiplier(riderId) ==
  IF riderId \in DOMAIN riderModelCache THEN {riderModelCache[riderId]}
  ELSE SpeedMultipliers

\* The age of the entry found under the key, -1 when there is none.
AgeFound(key) == IF key \in DOMAIN etaCache THEN clock - etaCache[key].timestamp ELSE -1

\* ETAModel.estimateETA, called by op at wall-clock time clock; the answer
\* keeps the call, the age of the entry found and the estimate returned.
estimateETA(op, origin, destination, departureTime, riderId) ==
  IF /\ generateCacheKey(origin, destination, departureTime) \in DOMAIN etaCache
     /\ cacheServes(etaCache[generateCacheKey(origin, destination, departureTime)], clock)
  THEN /\ answer' = [op |-> op, riderId |-> riderId, at |-> clock,
                     key |-> generateCacheKey(origin, destination, departureTime),
                     age |-> AgeFound(generateCacheKey(origin, destination,
                                                       departureTime)),
                     estimate |->
                       etaCache[generateCacheKey(origin, destination, departureTime)].estimate]
       /\ UNCHANGED <<etaCache, riderModelCache>>
  ELSE \E riderSpeedMultiplier \in
            (IF riderId = NoRider THEN {100} ELSE getRiderSpeedMultiplier(riderId)) :
       \E confidence \in Confidences :
         /\ riderModelCache' =
              IF riderId = NoRider THEN riderModelCache
              ELSE MapSet(riderModelCache, riderId, riderSpeedMultiplier)
         /\ etaCache' =
              MapSet(etaCache, generateCacheKey(origin, destination, departureTime),
                     [estimate |-> EstimateOf(origin, destination, departureTime,
                                              riderSpeedMultiplier, confidence),
                      timestamp |-> clock])
         /\ answer' = [op |-> op, riderId |-> riderId, at |-> clock,
                       key |-> generateCacheKey(origin, destination, departureTime),
                     age |-> AgeFound(generateCacheKey(origin, destination,
                                                       departureTime)),
                       estimate |-> EstimateOf(origin, destination, departureTime,
                                               riderSpeedMultiplier, confidence)]

\* The calls made: rider 2 stands 4 steps from rider 1, within the same
\* 0.0001 degree; the destination is 2 km from rider 1; the direct calls
\* ask for a departure in the first minute of the run.
EtaRiderIds == {1, 2}
EtaRiderLocation(riderId) == (riderId - 1) * 4
EtaOrigin == EtaRiderLocation(1)
EtaDestination == EtaRiderLocation(1) + 20 * 90
DepartureTimes == {0, 30}
MaxEtaClock == 300
EtaTickSteps == {150}

EtaLeaves ==
  UNCHANGED <<orders, riders, riderLocations, assignments, surgeState, cycleCount,
              cycleHistory, calls, lastCall, updates, config, reassignmentCounts,
              lastReassignmentTime, clock, recorded, solverVars>>

\* The caller asks estimateETA(origin, destination, departureTime, riderId?).
CallEstimateETA(departureTime, riderId) ==
  /\ estimateETA("estimateETA", EtaOrigin, EtaDestination, departureTime, riderId)
  /\ EtaLeaves

\* Scorer.calculateSLARiskCost(order, rider, now): the estimate asked from
\* the rider's location to the order's delivery at now, for the rider.
CallCalculateSLARiskCost(riderId) ==
  /\ estimateETA("calculateSLARiskCost", EtaRiderLocation(riderId), EtaDestination,
                 clock, riderId)
  /\ EtaLeaves

\* Time passes between two calls.
EtaTick ==
  /\ \E d \in EtaTickSteps : clock + d <= MaxEtaClock /\ clock' = clock + d
  /\ answer' = [op |-> "none"]
  /\ UNCHANGED <<reassignmentCounts, lastReassignmentTime, recorded, solverVars,
                 engineVars>>

InitEta ==
  /\ solverInput = EmptyMatrix
  /\ solverResult = NotSolved
  /\ ReassignIdle
  /\ EngineConstructed

NextEta ==
  \/ \E departureTime \in DepartureTimes : \E riderId \in {NoRider, 1} :
       CallEstimateETA(departureTime, riderId)
  \/ \E riderId \in EtaRiderIds : CallCalculateSLARiskCost(riderId)
  \/ EtaTick

SpecEta == InitEta /\ [][NextEta]_vars

EtaOps == {"estimateETA", "calculateSLARiskCost"}

\* C23: a call that finds an entry under its key of an age below
\* etaCacheMinutes returns the stored estimate and leaves the cache as it
\* is; a call that finds an entry of that age or older, or none, stores
\* under the key the estimate it returns, computed with the caller's speed
\* multiplier, with the time of the call, and leaves the other entries.
C23_CacheServedWhileFresh ==
  [][(answer'.op \in EtaOps /\ clock' = clock) =>
       IF /\ answer'.key \in DOMAIN etaCache
          /\ clock - etaCache[answer'.key].timestamp < etaCacheMinutes * 60
       THEN /\ answer'.estimate = etaCache[answer'.key].estimate
            /\ etaCache' = etaCache
       ELSE /\ DOMAIN etaCache' = DOMAIN etaCache \cup {answer'.key}
            /\ etaCache'[answer'.key] = [estimate |-> answer'.estimate, timestamp |-> clock]
            /\ answer'.estimate.riderSpeedMultiplier =
                 IF answer'.riderId = NoRider THEN 100
                 ELSE riderModelCache'[answer'.riderId]
            /\ \A key \in DOMAIN etaCache \ {answer'.key} : etaCache'[key] = etaCache[key]]_vars

\* A call found an entry exactly etaCacheMinutes old and replaced it.
C23_Witness ==
  /\ answer.op = "estimateETA"
  /\ answer.age = etaCacheMinutes * 60
  /\ etaCache[answer.key].timestamp = answer.at
  /\ Cardinality(DOMAIN etaCache) >= 2

\* C24: the estimate used to score a rider carries the speed multiplier of
\* that rider's own model.
C24_OwnSpeedMultiplier ==
  (answer.op = "calculateSLARiskCost" /\ answer.riderId \in DOMAIN riderModelCache)
    => answer.estimate.riderSpeedMultiplier = riderModelCache[answer.riderId]

=============================================================================
